---- MODULE Spec2Model ----
(***************************************************************************)
(* Model of spectrum_virtualize_exporter: the /probe handler, the probe    *)
(* orchestrator, the password session client and the resource probes.      *)
(*                                                                         *)
(* One inbound /probe request is a process r.  The handler runs until it   *)
(* blocks on an upstream round trip (hc.Do), so one action is the code     *)
(* between two round trips:                                                *)
(*   Arrive         probeHandler .. probe .. newSpectrumPasswordClient     *)
(*                  up to the login round trip (or the rejection)          *)
(*   LoginResponse  rest of newSpectrumPasswordClient, then the probes up  *)
(*                  to the first fetch                                     *)
(*   FetchResponse  rest of Get and of the running probe, then the next    *)
(*                  probes up to the next fetch, or the end of the handler *)
(*   Tick, Cancel   the environment: time passing, the caller going away   *)
(*   Return         the handler has returned; the slot takes a new request *)
(***************************************************************************)
EXTENDS Integers, Sequences, FiniteSets, TLC

\* ---------------------------------------------------------------- bounds
\* number of request slots of the hosting server that are modelled
MaxReqs == 2
\* *timeoutSeconds, in ticks of the model's clock
TimeoutTicks == 2
\* the longest array of records a probe function is tested on
MaxRecords == 2

Reqs == 1 .. MaxReqs

\* ------------------------------------------------------------ url.URL
\* A parsed URL: the fields of url.URL that the program reads or writes.
URL(scheme, user, host, path, query, fragment) ==
    [Scheme |-> scheme, User |-> user, Host |-> host, Path |-> path,
     RawQuery |-> query, Fragment |-> fragment]

\* the paths of the model that begin with '/'
LeadingSlash == {"/x", "/rest/auth"}

\* url.URL.String(): scheme ":" ["//" [userinfo "@"] host] ["/"] path
\* ["?" query] ["#" fragment]
URLString(u) ==
    LET s1 == IF u.Scheme # "" THEN u.Scheme \o ":" ELSE ""
        auth == u.Scheme # "" \/ u.Host # "" \/ u.User # ""
        s2 == IF auth /\ (u.Host # "" \/ u.Path # "" \/ u.User # "")
                 THEN "//" ELSE ""
        s3 == IF auth /\ u.User # "" THEN u.User \o "@" ELSE ""
        s4 == IF auth THEN u.Host ELSE ""
        s5 == IF u.Path # "" /\ u.Path \notin LeadingSlash /\ u.Host # ""
                 THEN "/" ELSE ""
        s6 == IF u.RawQuery # "" THEN "?" \o u.RawQuery ELSE ""
        s7 == IF u.Fragment # "" THEN "#" \o u.Fragment ELSE ""
    IN  s1 \o s2 \o s3 \o s4 \o s5 \o u.Path \o s6 \o s7

\* strings.ToLower on the schemes of the model
ToLower(s) ==
    CASE s = "HTTPS" -> "https"
      [] s = "HTTP"  -> "http"
      [] OTHER       -> s

\* A target parameter as the caller wrote it.  form "empty" is the missing
\* or empty parameter, "unparsable" a string url.Parse rejects, "url" a
\* string url.Parse accepts, given by its components.
Target(form, scheme, user, host, path, query, fragment) ==
    [form |-> form, scheme |-> scheme, user |-> user, host |-> host,
     path |-> path, query |-> query, fragment |-> fragment]

\* url.Parse: the scheme is lower-cased, the other components are split
UrlParse(t) ==
    URL(ToLower(t.scheme), t.user, t.host, t.path, t.query, t.fragment)

\* what the caller may add to scheme://host: <<userinfo, path, query, fragment>>
Extras ==
    { <<"", "", "", "">>, <<"eve", "", "", "">>, <<"", "/x", "", "">>,
      <<"", "", "q=1", "">>, <<"", "", "", "frag">>,
      <<"eve", "/x", "q=1", "frag">> }

Schemes == {"https", "HTTPS", "http", "ftp", ""}
Hosts == {"a:7443", "b", "c", "d"}

Targets ==
    { Target("empty", "", "", "", "", "", ""),
      Target("unparsable", "", "", "", "", "", "") }
    \cup { Target("url", s, x[1], h, x[2], x[3], x[4]) :
             s \in Schemes, h \in Hosts, x \in Extras }

\* -------------------------------------------------------- credentials
Auth(user, password) == [User |-> user, Password |-> password]

\* the credential file of the model, as main loads it: one complete entry,
\* one without password, one without user, and a complete entry under a
\* scheme the exporter does not speak; https://d has no entry
AuthMapLoaded ==
    ( "https://a:7443" :> Auth("monitor", "passw0rd") )
    @@ ( "https://b" :> Auth("monitor2", "") )
    @@ ( "http://c" :> Auth("", "passw0rd1") )
    @@ ( "ftp://d" :> Auth("monitor", "passw0rd") )

\* ------------------------------------------------------ metric sink
\* A gauge value float64(n.f) * m, kept as <<n, f, m>>: the integer part
\* n, the digits f after the point, and the multiplier m by its name
\* ("1", "/100", "*2^20", "*10^9", "*10^6", or a byte unit); 0 is 0 under
\* every multiplier.
\* a value that drops its multiplier
Scaled_Unscaled(n, m) == <<n, <<>>, "1">>

Scaled(n, m) == IF n = 0 THEN <<0, <<>>, "1">> ELSE <<n, <<>>, m>>
Float(n) == Scaled(n, "1")

Series(name, labels, value) ==
    [name |-> name, labels |-> labels, value |-> value]

\* prometheus.NewRegistry(): no collector, no series.  dup records that
\* MustRegister was given a name the registry already holds (it panics).
NewRegistry == [created |-> TRUE, names |-> {}, series |-> {}, dup |-> FALSE]
\* the handler before line 89: there is no registry
NoRegistry == [created |-> FALSE, names |-> {}, series |-> {}, dup |-> FALSE]

\* registry.MustRegister(<GaugeVec name>): a vector has no series until
\* WithLabelValues makes one
MustRegister(reg, name) ==
    [reg EXCEPT !.names = @ \cup {name},
                !.dup = @ \/ name \in reg.names]

\* registry.MustRegister(prometheus.NewGauge(name)): a plain gauge is one
\* series without labels, 0 until Set
MustRegisterGauge(reg, name) ==
    [MustRegister(reg, name) EXCEPT
        !.series = @ \cup {Series(name, <<>>, Float(0))}]

\* a Set that does not touch a series that exists
GaugeSet_FirstWins(reg, name, labels, v) ==
    IF name \notin reg.names THEN reg
    ELSE IF \E s \in reg.series : s.name = name /\ s.labels = labels THEN reg
    ELSE [reg EXCEPT !.series = @ \cup {Series(name, labels, v)}]

\* a Set that makes a new series each time
GaugeSet_Append(reg, name, labels, v) ==
    IF name \notin reg.names THEN reg
    ELSE [reg EXCEPT !.series = @ \cup {Series(name, labels, v)}]

\* m.WithLabelValues(labels...).Set(v) on a vector, and g.Set(v) on a plain
\* gauge (labels <<>>): one series per label key, the last Set of a key is
\* its value; the registry gathers the series of registered collectors only
GaugeSet(reg, name, labels, v) ==
    IF name \notin reg.names THEN reg
    ELSE [reg EXCEPT !.series =
            { s \in @ : ~(s.name = name /\ s.labels = labels) }
            \cup {Series(name, labels, v)}]

RECURSIVE RegisterAll(_, _)
RegisterAll(reg, names) ==
    IF names = <<>> THEN reg
    ELSE RegisterAll(MustRegister(reg, Head(names)), Tail(names))

\* ------------------------------------------------------- strconv, json
Digits == {"0", "1", "2", "3", "4", "5", "6", "7", "8", "9"}
DigitVal(c) ==
    CASE c = "0" -> 0 [] c = "1" -> 1 [] c = "2" -> 2 [] c = "3" -> 3
      [] c = "4" -> 4 [] c = "5" -> 5 [] c = "6" -> 6 [] c = "7" -> 7
      [] c = "8" -> 8 [] c = "9" -> 9

RECURSIVE DecimalValue(_)
DecimalValue(cs) ==
    IF cs = <<>> THEN 0
    ELSE 10 * DecimalValue(SubSeq(cs, 1, Len(cs) - 1)) + DigitVal(cs[Len(cs)])

\* strconv.Atoi on a string given as its characters: an optional sign and
\* at least one digit, nothing else
Atoi(cs) ==
    LET signed == cs # <<>> /\ cs[1] \in {"+", "-"}
        ds == IF signed THEN Tail(cs) ELSE cs
        good == ds # <<>> /\ \A i \in 1 .. Len(ds) : ds[i] \in Digits
    IN  IF ~good THEN [err |-> TRUE, n |-> 0]
        ELSE [err |-> FALSE,
              n |-> IF signed /\ cs[1] = "-" THEN 0 - DecimalValue(ds)
                    ELSE DecimalValue(ds)]

\* strings.HasSuffix / strings.TrimSuffix on character sequences
HasSuffix(cs, suf) ==
    Len(cs) >= Len(suf) /\ SubSeq(cs, Len(cs) - Len(suf) + 1, Len(cs)) = suf
TrimSuffix(cs, suf) ==
    IF HasSuffix(cs, suf) THEN SubSeq(cs, 1, Len(cs) - Len(suf)) ELSE cs

\* A response body: json is "invalid" (not JSON), "null", "object" (val:
\* its members) or "array" (val: its elements, objects whose members are
\* all JSON strings, as the upstream API sends them).
Body(json, val) == [json |-> json, val |-> val]
\* one member "k": v of a JSON object; t is the JSON type of v
Member(k, t, v) == [k |-> k, t |-> t, v |-> v]

\* the key matching of encoding/json for the field Token (no tag): the
\* field name, compared without case
MatchesToken(k) == k \in {"Token", "token", "TOKEN"}

\* json.Unmarshal(b, &obj) for obj of type login: null leaves obj as it
\* is, an object sets Token from a matching member (a string, or an
\* error), unknown members are skipped, anything else is an error
RECURSIVE UnmarshalLoginMembers(_, _)
UnmarshalLoginMembers(ms, acc) ==
    IF ms = <<>> THEN acc
    ELSE LET m == Head(ms)
             step == IF ~MatchesToken(m.k) THEN acc
                     ELSE IF m.t = "string" THEN [acc EXCEPT !.Token = m.v]
                     ELSE IF m.t = "null" THEN acc
                     ELSE [acc EXCEPT !.err = TRUE]
         IN  UnmarshalLoginMembers(Tail(ms), step)

UnmarshalLogin(b) ==
    CASE b.json = "null" -> [err |-> FALSE, Token |-> ""]
      [] b.json = "object" ->
            UnmarshalLoginMembers(b.val, [err |-> FALSE, Token |-> ""])
      [] OTHER -> [err |-> TRUE, Token |-> ""]

\* the ",string" option on an int field: the member must hold a JSON
\* integer literal (an optional '-', digits, no leading 0), or Unmarshal
\* fails
JSONInt(cs) ==
    LET ds == IF cs # <<>> /\ cs[1] = "-" THEN Tail(cs) ELSE cs
        a == Atoi(cs)
    IN  IF cs # <<>> /\ cs[1] = "+" THEN [err |-> TRUE, n |-> 0]
        ELSE IF Len(ds) > 1 /\ ds[1] = "0" THEN [err |-> TRUE, n |-> 0]
        ELSE a

RECURSIVE UnmarshalIntFields(_, _)
UnmarshalIntFields(rec, fields) ==
    IF fields = <<>> THEN [err |-> FALSE, rec |-> rec]
    ELSE LET f == Head(fields)
             a == JSONInt(rec[f])
             rest == UnmarshalIntFields([rec EXCEPT ![f] = a.n], Tail(fields))
         IN  IF a.err THEN [err |-> TRUE, rec |-> rec] ELSE rest

RECURSIVE UnmarshalRecords(_, _)
UnmarshalRecords(elems, intFields) ==
    IF elems = <<>> THEN [err |-> FALSE, st |-> <<>>]
    ELSE LET h == UnmarshalIntFields(Head(elems), intFields)
             t == UnmarshalRecords(Tail(elems), intFields)
         IN  [err |-> h.err \/ t.err, st |-> <<h.rec>> \o t.st]

\* json.Unmarshal(b, &st) for st a slice of records: null is the empty
\* slice, an array is decoded element by element, the rest is an error
UnmarshalSlice(b, intFields) ==
    CASE b.json = "null" -> [err |-> FALSE, st |-> <<>>]
      [] b.json = "array" -> UnmarshalRecords(b.val, intFields)
      [] OTHER -> [err |-> TRUE, st |-> <<>>]

\* ---------------------------------------------------- resource probes
\* an indicator that does not look at the record
Indicator_AlwaysSet(x, v) == Float(1)

\* one-hot expansion shared by the status loops: the indicator of value v
\* for a record whose field holds x
Indicator(x, v) == Float(IF x = v THEN 1 ELSE 0)

\* an enclosure loop that takes every stat that is not power_w for a
\* temperature
RECURSIVE EmitEnclosureStats_NoFilter(_, _)
EmitEnclosureStats_NoFilter(reg, st) ==
    IF st = <<>> THEN reg
    ELSE LET s == Head(st)
             r1 == IF s.stat_name = "power_w"
                     THEN GaugeSet(reg, "spectrum_power_watts",
                                   <<s.enclosure_id>>, Float(s.stat_current))
                   ELSE GaugeSet(reg, "spectrum_temperature",
                                 <<s.enclosure_id>>, Float(s.stat_current))
         IN  EmitEnclosureStats_NoFilter(r1, Tail(st))

\* probeEnclosureStats, the loop over st
RECURSIVE EmitEnclosureStats(_, _)
EmitEnclosureStats(reg, st) ==
    IF st = <<>> THEN reg
    ELSE LET s == Head(st)
             r1 == IF s.stat_name = "power_w"
                     THEN GaugeSet(reg, "spectrum_power_watts",
                                   <<s.enclosure_id>>, Float(s.stat_current))
                   ELSE IF s.stat_name = "temp_c"
                     THEN GaugeSet(reg, "spectrum_temperature",
                                   <<s.enclosure_id>>, Float(s.stat_current))
                   ELSE reg
         IN  EmitEnclosureStats(r1, Tail(st))

\* probeEnclosurePSUs, the loop over st
RECURSIVE EmitEnclosurePSUs(_, _)
EmitEnclosurePSUs(reg, st) ==
    IF st = <<>> THEN reg
    ELSE LET s == Head(st)
             n == "spectrum_psu_status"
             r1 == GaugeSet(reg, n, <<s.enclosure_id, s.psu_id, "online">>,
                            Indicator(s.status, "online"))
             r2 == GaugeSet(r1, n, <<s.enclosure_id, s.psu_id, "offline">>,
                            Indicator(s.status, "offline"))
             r3 == GaugeSet(r2, n, <<s.enclosure_id, s.psu_id, "degraded">>,
                            Indicator(s.status, "degraded"))
         IN  EmitEnclosurePSUs(r3, Tail(st))

\* the byte units of units.ParseBase2Bytes: KB and KiB are both 1024
Base2Units ==
    { <<"B">>, <<"K", "B">>, <<"K", "i", "B">>, <<"M", "B">>,
      <<"M", "i", "B">>, <<"G", "B">>, <<"G", "i", "B">>, <<"T", "B">>,
      <<"T", "i", "B">>, <<"P", "B">>, <<"P", "i", "B">> }
UnitName(u) == IF Len(u) = 1 THEN "B" ELSE "*" \o u[1] \o "iB"

\* the longest prefix of cs made of digits
RECURSIVE DigitPrefix(_)
DigitPrefix(cs) ==
    IF cs = <<>> \/ cs[1] \notin Digits THEN <<>>
    ELSE <<cs[1]>> \o DigitPrefix(Tail(cs))

\* units.ParseBase2Bytes on a string of the form <digits>[.<digits>]<unit>:
\* the number times the unit, an error for an empty string, a missing
\* number or an unknown unit.
ParseBase2Bytes(cs) ==
    LET int == DigitPrefix(cs)
        r1 == SubSeq(cs, Len(int) + 1, Len(cs))
        dot == r1 # <<>> /\ r1[1] = "."
        frac == IF dot THEN DigitPrefix(Tail(r1)) ELSE <<>>
        unit == IF dot THEN SubSeq(r1, Len(frac) + 2, Len(r1)) ELSE r1
    IN  IF cs = <<"0">> THEN [err |-> FALSE, v |-> Float(0)]
        ELSE IF (int = <<>> /\ frac = <<>>) \/ unit \notin Base2Units
          THEN [err |-> TRUE, v |-> Float(0)]
        ELSE [err |-> FALSE,
              v |-> IF DecimalValue(int) = 0 /\ DecimalValue(frac) = 0
                      THEN Float(0)
                    ELSE <<DecimalValue(int), frac, UnitName(unit)>>]

\* a pool loop that goes to the next pool at the first size it cannot
\* parse
RECURSIVE EmitPool_SkipRest(_, _)
EmitPool_SkipRest(reg, st) ==
    IF st = <<>> THEN reg
    ELSE LET s == Head(st)
             r1 == GaugeSet(reg, "spectrum_pool_status",
                            <<s.id, s.name, "online">>,
                            Indicator(s.status, "online"))
             r2 == GaugeSet(r1, "spectrum_pool_status",
                            <<s.id, s.name, "offline">>,
                            Indicator(s.status, "offline"))
             r3 == GaugeSet(r2, "spectrum_pool_volume_count",
                            <<s.id, s.name>>, Float(s.vdisk_count))
             free == ParseBase2Bytes(s.free_capacity)
             r4 == GaugeSet(r3, "spectrum_pool_free_bytes",
                            <<s.id, s.name>>, free.v)
             capacity == ParseBase2Bytes(s.capacity)
             r5 == GaugeSet(r4, "spectrum_pool_capacity_bytes",
                            <<s.id, s.name>>, capacity.v)
             used == ParseBase2Bytes(s.used_capacity)
             r6 == GaugeSet(r5, "spectrum_pool_used_bytes",
                            <<s.id, s.name>>, used.v)
         IN  EmitPool_SkipRest(
                 IF free.err THEN r3
                 ELSE IF capacity.err THEN r4
                 ELSE IF used.err THEN r5
                 ELSE r6,
                 Tail(st))

\* probePool, the loop over st
RECURSIVE EmitPool(_, _)
EmitPool(reg, st) ==
    IF st = <<>> THEN reg
    ELSE LET s == Head(st)
             r1 == GaugeSet(reg, "spectrum_pool_status",
                            <<s.id, s.name, "online">>,
                            Indicator(s.status, "online"))
             r2 == GaugeSet(r1, "spectrum_pool_status",
                            <<s.id, s.name, "offline">>,
                            Indicator(s.status, "offline"))
             r3 == GaugeSet(r2, "spectrum_pool_volume_count",
                            <<s.id, s.name>>, Float(s.vdisk_count))
             free == ParseBase2Bytes(s.free_capacity)
             r4 == IF free.err THEN r3
                   ELSE GaugeSet(r3, "spectrum_pool_free_bytes",
                                 <<s.id, s.name>>, free.v)
             capacity == ParseBase2Bytes(s.capacity)
             r5 == IF capacity.err THEN r4
                   ELSE GaugeSet(r4, "spectrum_pool_capacity_bytes",
                                 <<s.id, s.name>>, capacity.v)
             used == ParseBase2Bytes(s.used_capacity)
             r6 == IF used.err THEN r5
                   ELSE GaugeSet(r5, "spectrum_pool_used_bytes",
                                 <<s.id, s.name>>, used.v)
         IN  EmitPool(r6, Tail(st))

\* a drive loop that leaves out a drive whose status it does not know
RECURSIVE EmitDrives_SkipUnknown(_, _)
EmitDrives_SkipUnknown(reg, st) ==
    IF st = <<>> THEN reg
    ELSE LET s == Head(st)
             n == "spectrum_drive_status"
             k == <<s.enclosure_id, s.slot_id, s.id>>
             r1 == GaugeSet(reg, n, k \o <<"online">>,
                            Float(IF s.status = "online" THEN 1 ELSE 0))
             r2 == GaugeSet(r1, n, k \o <<"offline">>,
                            Float(IF s.status = "offline" THEN 1 ELSE 0))
             r3 == GaugeSet(r2, n, k \o <<"degraded">>,
                            Float(IF s.status = "degraded" THEN 1 ELSE 0))
         IN  EmitDrives_SkipUnknown(
                 IF s.status \in {"online", "offline", "degraded"}
                   THEN r3 ELSE reg,
                 Tail(st))

\* probeDrives, the loop over st
RECURSIVE EmitDrives(_, _)
EmitDrives(reg, st) ==
    IF st = <<>> THEN reg
    ELSE LET s == Head(st)
             n == "spectrum_drive_status"
             k == <<s.enclosure_id, s.slot_id, s.id>>
             r1 == GaugeSet(reg, n, k \o <<"online">>,
                            Indicator(s.status, "online"))
             r2 == GaugeSet(r1, n, k \o <<"offline">>,
                            Indicator(s.status, "offline"))
             r3 == GaugeSet(r2, n, k \o <<"degraded">>,
                            Indicator(s.status, "degraded"))
         IN  EmitDrives(r3, Tail(st))

\* probeNodeStats, the loop over st
RECURSIVE EmitNodeStats(_, _)
EmitNodeStats(reg, st) ==
    IF st = <<>> THEN reg
    ELSE LET s == Head(st)
             id == <<s.node_id>>
             v == s.stat_current
             r1 ==
               CASE s.stat_name = "compression_cpu_pc" ->
                      GaugeSet(reg, "spectrum_node_compression_usage_ratio",
                               id, Scaled(v, "/100"))
                 [] s.stat_name = "cpu_pc" ->
                      GaugeSet(reg, "spectrum_node_system_usage_ratio",
                               id, Scaled(v, "/100"))
                 [] s.stat_name = "fc_mb" ->
                      GaugeSet(reg, "spectrum_node_fc_bps",
                               id, Scaled(v, "*2^20"))
                 [] s.stat_name = "fc_io" ->
                      GaugeSet(reg, "spectrum_node_fc_iops", id, Float(v))
                 [] s.stat_name = "iscsi_mb" ->
                      GaugeSet(reg, "spectrum_node_iscsi_bps",
                               id, Scaled(v, "*2^20"))
                 [] s.stat_name = "iscsi_io" ->
                      GaugeSet(reg, "spectrum_node_iscsi_iops", id, Float(v))
                 [] s.stat_name = "sas_mb" ->
                      GaugeSet(reg, "spectrum_node_sas_bps",
                               id, Scaled(v, "*2^20"))
                 [] s.stat_name = "sas_io" ->
                      GaugeSet(reg, "spectrum_node_sas_iops", id, Float(v))
                 [] s.stat_name = "write_cache_pc" ->
                      GaugeSet(reg, "spectrum_node_write_cache_usage_ratio",
                               id, Scaled(v, "/100"))
                 [] s.stat_name = "total_cache_pc" ->
                      GaugeSet(reg, "spectrum_node_total_cache_usage_ratio",
                               id, Scaled(v, "/100"))
                 [] OTHER -> reg
         IN  EmitNodeStats(r1, Tail(st))

\* a speed parsed without the check that the suffix was there
FCPortSpeed_AnySuffix(speed) ==
    LET pss == TrimSuffix(speed, <<"G", "b">>)
        x == Atoi(pss)
    IN  IF ~x.err THEN Scaled(x.n, "*10^9") ELSE Float(0)

\* probeFCPorts, lines 420-426: ps from port_speed
FCPortSpeed(speed) ==
    LET pss == TrimSuffix(speed, <<"G", "b">>)
        x == Atoi(pss)
    IN  IF pss # speed /\ ~x.err THEN Scaled(x.n, "*10^9") ELSE Float(0)

\* probeFCPorts, the loop over st
RECURSIVE EmitFCPorts(_, _)
EmitFCPorts(reg, st) ==
    IF st = <<>> THEN reg
    ELSE LET s == Head(st)
             n == "spectrum_fc_port_status"
             k == <<s.node_id, s.adapter_location, s.adapter_port_id>>
             r1 == GaugeSet(reg, n, k \o <<s.WWPN, "active">>,
                            Indicator(s.status, "active"))
             r2 == GaugeSet(r1, n, k \o <<s.WWPN, "inactive_unconfigured">>,
                            Indicator(s.status, "inactive_unconfigured"))
             r3 == GaugeSet(r2, n, k \o <<s.WWPN, "inactive_configured">>,
                            Indicator(s.status, "inactive_configured"))
             r4 == GaugeSet(r3, "spectrum_fc_port_speed_bps", k,
                            FCPortSpeed(s.port_speed))
         IN  EmitFCPorts(r4, Tail(st))

\* a speed whose Mb/s rule multiplies as the Gb/s rule does
IPPortSpeed_MbAsGb(speed) ==
    LET g == TrimSuffix(speed, <<"G", "b", "/", "s">>)
        xg == Atoi(g)
        ps1 == IF g # speed /\ ~xg.err THEN Scaled(xg.n, "*10^9")
               ELSE Float(0)
        m == TrimSuffix(speed, <<"M", "b", "/", "s">>)
        xm == Atoi(m)
    IN  IF m # speed /\ ~xm.err THEN Scaled(xm.n, "*10^9") ELSE ps1

\* probeIPPorts, lines 497-509: ps from speed; the Mb/s rule runs after
\* the Gb/s rule and overrides it
IPPortSpeed(speed) ==
    LET g == TrimSuffix(speed, <<"G", "b", "/", "s">>)
        xg == Atoi(g)
        ps1 == IF g # speed /\ ~xg.err THEN Scaled(xg.n, "*10^9")
               ELSE Float(0)
        m == TrimSuffix(speed, <<"M", "b", "/", "s">>)
        xm == Atoi(m)
    IN  IF m # speed /\ ~xm.err THEN Scaled(xm.n, "*10^6") ELSE ps1

\* probeIPPorts, the loop over st
RECURSIVE EmitIPPorts(_, _)
EmitIPPorts(reg, st) ==
    IF st = <<>> THEN reg
    ELSE LET s == Head(st)
             n == "spectrum_ip_port_state"
             k == <<s.node_id, s.adapter_location, s.adapter_port_id>>
             r1 == GaugeSet(reg, n, k \o <<s.MAC, "configured">>,
                            Indicator(s.state, "configured"))
             r2 == GaugeSet(r1, n, k \o <<s.MAC, "unconfigured">>,
                            Indicator(s.state, "unconfigured"))
             r3 == GaugeSet(r2, n, k \o <<s.MAC, "management_only">>,
                            Indicator(s.state, "management_only"))
             r4 == GaugeSet(r3, "spectrum_ip_port_link_active",
                            k \o <<s.MAC>>,
                            Indicator(s.link_state, "active"))
             r5 == GaugeSet(r4, "spectrum_ip_port_speed_bps", k,
                            IPPortSpeed(s.speed))
         IN  EmitIPPorts(r5, Tail(st))

\* a chain that probes the drives before the pools
ProbeSeq_DrivesFirst ==
    << "EnclosureStats", "EnclosurePSUs", "Drives", "Pool", "NodeStats",
       "Host", "FCPorts", "IPPorts" >>

\* the resource probes in the order of probe's && chain
ProbeSeq ==
    << "EnclosureStats", "EnclosurePSUs", "Pool", "Drives", "NodeStats",
       "Host", "FCPorts", "IPPorts" >>
NumProbes == Len(ProbeSeq)

\* the probes that fetch; probeHost returns true without a request
Fetches(p) == p # "Host"

\* the path each probe passes to c.Get
ProbePath(p) ==
    CASE p = "EnclosureStats" -> "rest/lsenclosurestats"
      [] p = "EnclosurePSUs"  -> "rest/lsenclosurepsu"
      [] p = "Pool"           -> "rest/lsmdiskgrp"
      [] p = "Drives"         -> "rest/lsdrive"
      [] p = "NodeStats"      -> "rest/lsnodecanisterstats"
      [] p = "FCPorts"        -> "rest/lsportfc"
      [] p = "IPPorts"        -> "rest/lsportip"

\* families in which the IP port probe takes the name of the FC port speed
ProbeFamilies_SharedSpeed(p) ==
    CASE p = "EnclosureStats" ->
           <<"spectrum_power_watts", "spectrum_temperature">>
      [] p = "EnclosurePSUs" -> <<"spectrum_psu_status">>
      [] p = "Pool" ->
           <<"spectrum_pool_status", "spectrum_pool_volume_count",
             "spectrum_pool_capacity_bytes", "spectrum_pool_free_bytes",
             "spectrum_pool_used_bytes">>
      [] p = "Drives" -> <<"spectrum_drive_status">>
      [] p = "NodeStats" ->
           <<"spectrum_node_system_usage_ratio",
             "spectrum_node_compression_usage_ratio",
             "spectrum_node_write_cache_usage_ratio",
             "spectrum_node_total_cache_usage_ratio",
             "spectrum_node_fc_bps", "spectrum_node_fc_iops",
             "spectrum_node_iscsi_bps", "spectrum_node_iscsi_iops",
             "spectrum_node_sas_bps", "spectrum_node_sas_iops">>
      [] p = "Host" -> <<>>
      [] p = "FCPorts" ->
           <<"spectrum_fc_port_status", "spectrum_fc_port_speed_bps">>
      [] p = "IPPorts" ->
           <<"spectrum_ip_port_state", "spectrum_ip_port_link_active",
             "spectrum_fc_port_speed_bps">>

\* the metric families each probe registers before its fetch, in order
ProbeFamilies(p) ==
    CASE p = "EnclosureStats" ->
           <<"spectrum_power_watts", "spectrum_temperature">>
      [] p = "EnclosurePSUs" -> <<"spectrum_psu_status">>
      [] p = "Pool" ->
           <<"spectrum_pool_status", "spectrum_pool_volume_count",
             "spectrum_pool_capacity_bytes", "spectrum_pool_free_bytes",
             "spectrum_pool_used_bytes">>
      [] p = "Drives" -> <<"spectrum_drive_status">>
      [] p = "NodeStats" ->
           <<"spectrum_node_system_usage_ratio",
             "spectrum_node_compression_usage_ratio",
             "spectrum_node_write_cache_usage_ratio",
             "spectrum_node_total_cache_usage_ratio",
             "spectrum_node_fc_bps", "spectrum_node_fc_iops",
             "spectrum_node_iscsi_bps", "spectrum_node_iscsi_iops",
             "spectrum_node_sas_bps", "spectrum_node_sas_iops">>
      [] p = "Host" -> <<>>
      [] p = "FCPorts" ->
           <<"spectrum_fc_port_status", "spectrum_fc_port_speed_bps">>
      [] p = "IPPorts" ->
           <<"spectrum_ip_port_state", "spectrum_ip_port_link_active",
             "spectrum_ip_port_speed_bps">>

\* the int fields (json ",string") of each probe's record type
ProbeIntFields(p) ==
    CASE p \in {"EnclosureStats", "NodeStats"} -> <<"stat_current">>
      [] p = "Pool" -> <<"vdisk_count">>
      [] OTHER -> <<>>

\* the loop of probe p over the decoded records
ProbeEmit(p, reg, st) ==
    CASE p = "EnclosureStats" -> EmitEnclosureStats(reg, st)
      [] p = "EnclosurePSUs"  -> EmitEnclosurePSUs(reg, st)
      [] p = "Pool"           -> EmitPool(reg, st)
      [] p = "Drives"         -> EmitDrives(reg, st)
      [] p = "NodeStats"      -> EmitNodeStats(reg, st)
      [] p = "FCPorts"        -> EmitFCPorts(reg, st)
      [] p = "IPPorts"        -> EmitIPPorts(reg, st)
      [] OTHER                -> reg

\* ------------------------------------------------- the upstream array
\* What hc.Do and the reading of the body give the caller: err is
\* "transport" (Do returns an error: refused, TLS, aborted by the context),
\* "read" (ioutil.ReadAll fails), or "" with a status and a body.
Response(err, status, body) == [err |-> err, status |-> status, body |-> body]

NoBody == Body("invalid", <<>>)
TransportError == Response("transport", 0, NoBody)

\* what the array may answer to POST /rest/auth
LoginResponses ==
    { TransportError,
      Response("", 403, NoBody),
      Response("read", 200, NoBody),
      Response("", 200, Body("invalid", <<>>)),
      Response("", 200, Body("array", <<>>)),
      Response("", 200, Body("object", <<Member("token", "number", "5")>>)),
      Response("", 200, Body("object", <<>>)),
      Response("", 200, Body("object", <<Member("token", "string", "T1")>>)),
      Response("", 200, Body("object", <<Member("user", "string", "monitor"),
                                         Member("Token", "string", "T2")>>)) }

EnclosureStat(e, n, c) ==
    [enclosure_id |-> e, stat_name |-> n, stat_current |-> c]
PSU(e, p, s) == [enclosure_id |-> e, psu_id |-> p, status |-> s]
Pool(id, name, status, n, cap, free, used) ==
    [id |-> id, name |-> name, status |-> status, vdisk_count |-> n,
     capacity |-> cap, free_capacity |-> free, used_capacity |-> used]
Drive(id, e, slot, s) ==
    [id |-> id, enclosure_id |-> e, slot_id |-> slot, status |-> s]
NodeStat(node, n, c) == [node_id |-> node, stat_name |-> n, stat_current |-> c]
FCPort(node, loc, port, wwpn, s, speed) ==
    [node_id |-> node, adapter_location |-> loc, adapter_port_id |-> port,
     WWPN |-> wwpn, status |-> s, port_speed |-> speed]
IPPort(node, loc, port, mac, state, link, speed) ==
    [node_id |-> node, adapter_location |-> loc, adapter_port_id |-> port,
     MAC |-> mac, state |-> state, link_state |-> link, speed |-> speed]

\* the arrays the upstream may return for each probe's path
ProbeArrays(p) ==
    CASE p = "EnclosureStats" ->
           { <<EnclosureStat("1", "power_w", <<"4", "2", "7">>),
               EnclosureStat("1", "temp_c", <<"2", "6">>),
               EnclosureStat("1", "fan_rpm", <<"9">>)>>,
             <<EnclosureStat("1", "power_w", <<"N", "/", "A">>)>> }
      [] p = "EnclosurePSUs" ->
           { <<PSU("1", "1", "online"), PSU("1", "2", "degraded"),
               PSU("2", "1", "unknown")>> }
      [] p = "Pool" ->
           { <<Pool("0", "Pool0", "online", <<"4", "4">>,
                    <<"9", ".", "7", "4", "T", "B">>,
                    <<"8", ".", "9", "4", "T", "B">>,
                    <<"5", "4", "6", "G", "B">>)>>,
             <<Pool("0", "Pool0", "offline", <<"0">>, <<"1", "0", "T", "i", "B">>,
                    <<>>, <<"0">>),
               Pool("1", "Pool1", "online", <<"x">>, <<"1", "T", "B">>,
                    <<"1", "T", "B">>, <<"0">>)>>,
             <<Pool("0", "Pool0", "online", <<"1">>, <<"1", "0", "T", "i", "B">>,
                    <<"f", "u", "l", "l">>, <<"1", "T", "B">>)>> }
      [] p = "Drives" ->
           { <<Drive("0", "1", "4", "online"), Drive("1", "1", "5", "offline")>> }
      [] p = "NodeStats" ->
           { <<NodeStat("1", "compression_cpu_pc", <<"2", "4">>),
               NodeStat("1", "fc_mb", <<"1">>),
               NodeStat("2", "fc_io", <<"7">>),
               NodeStat("2", "mdisk_ms", <<"3">>)>> }
      [] p = "FCPorts" ->
           { <<FCPort("1", "1", "1", "50:01", "active", <<"8", "G", "b">>),
               FCPort("1", "1", "1", "50:02", "inactive_unconfigured",
                      <<"N", "/", "A">>)>>,
             <<>> }
      [] p = "IPPorts" ->
           { <<IPPort("1", "0", "1", "08:94", "configured", "active",
                      <<"1", "G", "b", "/", "s">>),
               IPPort("1", "0", "2", "08:95", "unconfigured", "inactive",
                      <<"1", "0", "0", "M", "b", "/", "s">>)>> }
      [] OTHER -> {}

\* what the array may answer to the fetch of probe p
FetchResponses(p) ==
    { TransportError,
      Response("", 500, NoBody),
      Response("", 403, Body("array", <<>>)),
      Response("read", 200, NoBody),
      Response("", 200, Body("invalid", <<>>)),
      Response("", 200, Body("object", <<>>)) }
    \cup (IF p = "EnclosureStats" THEN {Response("", 200, Body("null", <<>>))}
          ELSE {})
    \cup { Response("", 200, Body("array", a)) : a \in ProbeArrays(p) }

\* --------------------------------------------------------------- state
VARIABLES
    authMap,    \* the global authMap, filled by main before the server starts
    pc,         \* per request: "off", "idle", "login" and "fetch" (blocked
                \* in hc.Do), "done" (the response is written)
    target,     \* per request: the target parameter
    client,     \* per request: the spectrumPasswordClient probe holds
    registry,   \* per request: the prometheus registry of the handler
    sent,       \* per request: the upstream requests hc.Do has sent
    recv,       \* per request: the upstream responses received
    step,       \* per request: the index in ProbeSeq of the running probe
    results,    \* per request: what the probes run so far returned
    elapsed,    \* per request: ticks since start
    cancelled,  \* per request: r.Context() is cancelled (the caller left)
    response,   \* per request: what the handler wrote to w
    testProbe,    \* unit test: the probe function under test, or "none"
    testData,     \* unit test: the body the fakeClient holds for its path
    testRegistry, \* unit test: the pedantic registry r of the test
    testResult    \* unit test: "none", or what the probe function returned

\* the state of a unit test of one probe function
tvars == << testProbe, testData, testRegistry, testResult >>

vars == << authMap, pc, target, client, registry, sent, recv, step, results,
           elapsed, cancelled, response, tvars >>

NoURL == URL("", "", "", "", "", "")
NoClient == [made |-> FALSE, tgt |-> NoURL, tok |-> ""]
NoTarget == Target("empty", "", "", "", "", "", "")
\* nothing written yet; status 0 stands for that
NoResponse == [status |-> 0, kind |-> "none", series |-> {}]

\* the locals of a handler that has not started
Fresh(p) ==
    [pc |-> p, target |-> NoTarget, client |-> NoClient,
     registry |-> NoRegistry, sent |-> <<>>, recv |-> <<>>, step |-> 0,
     results |-> <<>>, elapsed |-> 0, cancelled |-> FALSE,
     response |-> NoResponse]

\* the locals of request r, and their assignment
Local(r) ==
    [pc |-> pc[r], target |-> target[r], client |-> client[r],
     registry |-> registry[r], sent |-> sent[r], recv |-> recv[r],
     step |-> step[r], results |-> results[r], elapsed |-> elapsed[r],
     cancelled |-> cancelled[r], response |-> response[r]]

\* an assignment that keeps the client in one place for all requests
Apply_SharedClient(r, h) ==
    /\ pc' = [pc EXCEPT ![r] = h.pc]
    /\ target' = [target EXCEPT ![r] = h.target]
    /\ client' = [q \in Reqs |-> h.client]
    /\ registry' = [registry EXCEPT ![r] = h.registry]
    /\ sent' = [sent EXCEPT ![r] = h.sent]
    /\ recv' = [recv EXCEPT ![r] = h.recv]
    /\ step' = [step EXCEPT ![r] = h.step]
    /\ results' = [results EXCEPT ![r] = h.results]
    /\ elapsed' = [elapsed EXCEPT ![r] = h.elapsed]
    /\ cancelled' = [cancelled EXCEPT ![r] = h.cancelled]
    /\ response' = [response EXCEPT ![r] = h.response]
    /\ UNCHANGED << authMap, tvars >>

Apply(r, h) ==
    /\ pc' = [pc EXCEPT ![r] = h.pc]
    /\ target' = [target EXCEPT ![r] = h.target]
    /\ client' = [client EXCEPT ![r] = h.client]
    /\ registry' = [registry EXCEPT ![r] = h.registry]
    /\ sent' = [sent EXCEPT ![r] = h.sent]
    /\ recv' = [recv EXCEPT ![r] = h.recv]
    /\ step' = [step EXCEPT ![r] = h.step]
    /\ results' = [results EXCEPT ![r] = h.results]
    /\ elapsed' = [elapsed EXCEPT ![r] = h.elapsed]
    /\ cancelled' = [cancelled EXCEPT ![r] = h.cancelled]
    /\ response' = [response EXCEPT ![r] = h.response]
    /\ UNCHANGED << authMap, tvars >>

\* ------------------------------------------------------ session client
\* an upstream request as hc.Do gets it: the URL string and the headers
Request(url, headers) == [method |-> "POST", url |-> url, headers |-> headers]

\* ctx of the handler: context.WithTimeout(r.Context(), *timeoutSeconds)
\* a context that is not derived from r.Context()
CtxDone_DeadlineOnly(h) == h.elapsed >= TimeoutTicks

CtxDone(h) == h.cancelled \/ h.elapsed >= TimeoutTicks

\* newSpectrumPasswordClient lines 80-87: the login request
LoginRequest(tgt, user, passwd) ==
    Request(URLString([tgt EXCEPT !.Path = "/rest/auth"]),
            { <<"X-Auth-Username", user>>, <<"X-Auth-Password", passwd>> })

\* the fetch request without line 45: the token header is not the client's
GetRequest_NoToken(c, path, query) ==
    Request(URLString([c.tgt EXCEPT !.Path = path, !.RawQuery = query]),
            { <<"X-Auth-Token", "">> })

\* Get lines 50-54 with newPostRequest: the fetch request
GetRequest(c, path, query) ==
    Request(URLString([c.tgt EXCEPT !.Path = path, !.RawQuery = query]),
            { <<"X-Auth-Token", c.tok>> })

\* newSpectrumPasswordClient lines 88-108 on the login response: the client,
\* or an error
LoginResult(tgt, resp) ==
    LET obj == UnmarshalLogin(resp.body)
    IN  IF resp.err = "transport" \/ resp.status # 200 \/ resp.err = "read"
           \/ obj.err
          THEN [err |-> TRUE, client |-> NoClient]
        ELSE [err |-> FALSE,
              client |-> [made |-> TRUE, tgt |-> tgt, tok |-> obj.Token]]

\* Get without the check of the status at line 64
GetResult_AnyStatus(resp, intFields) ==
    LET dec == UnmarshalSlice(resp.body, intFields)
    IN  IF resp.err = "transport" \/ resp.err = "read" \/ dec.err
          THEN [err |-> TRUE, st |-> <<>>]
        ELSE [err |-> FALSE, st |-> dec.st]

\* Get lines 60-72 on the response: the decoded records, or an error
GetResult(resp, intFields) ==
    LET dec == UnmarshalSlice(resp.body, intFields)
    IN  IF resp.err = "transport" \/ resp.status # 200 \/ resp.err = "read"
           \/ dec.err
          THEN [err |-> TRUE, st |-> <<>>]
        ELSE [err |-> FALSE, st |-> dec.st]

\* ------------------------------------------------------- probeHandler
\* the error written without an error status
BadRequest_StatusOK(h) ==
    [h EXCEPT !.pc = "done",
              !.response = [status |-> 200, kind |-> "text", series |-> {}]]

\* http.Error(w, ..., http.StatusBadRequest) and return: lines 76-77 and
\* 94-97
BadRequest(h) ==
    [h EXCEPT !.pc = "done",
              !.response = [status |-> 400, kind |-> "text", series |-> {}]]

\* the duration gauge's value: the ticks waited for the array plus the
\* handler's own running time, which is more than nothing
Duration(h) == <<h.elapsed, <<>>, "s+">>

\* lines 101-107 setting the success gauge whatever probe returned
Serve_AlwaysSuccess(h, success) ==
    LET r1 == GaugeSet(h.registry, "probe_duration_seconds", <<>>, Duration(h))
        r2 == GaugeSet(r1, "probe_success", <<>>, Float(1))
    IN  [h EXCEPT !.pc = "done", !.registry = r2,
                  !.response = [status |-> 200, kind |-> "metrics",
                                series |-> r2.series]]

\* probeHandler lines 99-109, after probe returned (success, nil): set the
\* two gauges and serve the registry; promhttp writes status 200 and the
\* series the registry gathers
Serve(h, success) ==
    LET r1 == GaugeSet(h.registry, "probe_duration_seconds", <<>>, Duration(h))
        r2 == IF success THEN GaugeSet(r1, "probe_success", <<>>, Float(1))
              ELSE r1
    IN  [h EXCEPT !.pc = "done", !.registry = r2,
                  !.response = [status |-> 200, kind |-> "metrics",
                                series |-> r2.series]]

\* probe lines 536-546 from the k-th probe on, up to the next round trip:
\* the probe registers its families, then fetches (probeHost returns true
\* at once); a Get under a context that is done fails without a request.
\* A false result ends the chain.
RECURSIVE RunProbes(_, _)
RunProbes(h, k) ==
    IF k > NumProbes THEN Serve(h, TRUE)
    ELSE LET p == ProbeSeq[k]
             h1 == [h EXCEPT !.registry = RegisterAll(@, ProbeFamilies(p)),
                             !.step = k]
         IN  IF ~Fetches(p)
               THEN RunProbes([h1 EXCEPT !.results = Append(@, TRUE)], k + 1)
             ELSE IF CtxDone(h1)
               THEN Serve([h1 EXCEPT !.results = Append(@, FALSE)], FALSE)
             ELSE [h1 EXCEPT !.pc = "fetch",
                             !.sent = Append(@, GetRequest(h1.client,
                                                           ProbePath(p), ""))]

\* a failed fetch that withholds what the earlier probes gathered
OnFetchResponse_Withhold(h, resp) ==
    LET p == ProbeSeq[h.step]
        got == GetResult(resp, ProbeIntFields(p))
        h1 == [h EXCEPT !.recv = Append(@, resp)]
        empty == MustRegisterGauge(
                   MustRegisterGauge(NewRegistry, "probe_success"),
                   "probe_duration_seconds")
    IN  IF got.err
          THEN Serve([h1 EXCEPT !.results = Append(@, FALSE),
                                !.registry = empty], FALSE)
        ELSE RunProbes([h1 EXCEPT !.registry = ProbeEmit(p, @, got.st),
                                  !.results = Append(@, TRUE)],
                       h.step + 1)

\* a chain that goes on to the next probe after a probe returned false
OnFetchResponse_KeepGoing(h, resp) ==
    LET p == ProbeSeq[h.step]
        got == GetResult(resp, ProbeIntFields(p))
        h1 == [h EXCEPT !.recv = Append(@, resp)]
    IN  IF got.err
          THEN RunProbes([h1 EXCEPT !.results = Append(@, FALSE)], h.step + 1)
        ELSE RunProbes([h1 EXCEPT !.registry = ProbeEmit(p, @, got.st),
                                  !.results = Append(@, TRUE)],
                       h.step + 1)

\* a probe that sends its fetch a second time when the first one failed
OnFetchResponse_RetryOnce(h, resp) ==
    LET p == ProbeSeq[h.step]
        got == GetResult(resp, ProbeIntFields(p))
        h1 == [h EXCEPT !.recv = Append(@, resp)]
        again == h.sent[Len(h.sent)]
        first == \A i \in 1 .. (Len(h.sent) - 1) : h.sent[i] # again
    IN  IF got.err /\ first /\ ~CtxDone(h)
          THEN [h1 EXCEPT !.sent = Append(@, again)]
        ELSE IF got.err
          THEN Serve([h1 EXCEPT !.results = Append(@, FALSE)], FALSE)
        ELSE RunProbes([h1 EXCEPT !.registry = ProbeEmit(p, @, got.st),
                                  !.results = Append(@, TRUE)],
                       h.step + 1)

\* the running probe from the return of hc.Do on: Get's result, the loop
\* over the records, return true; then the rest of the chain
OnFetchResponse(h, resp) ==
    LET p == ProbeSeq[h.step]
        got == GetResult(resp, ProbeIntFields(p))
        h1 == [h EXCEPT !.recv = Append(@, resp)]
    IN  IF got.err
          THEN Serve([h1 EXCEPT !.results = Append(@, FALSE)], FALSE)
        ELSE RunProbes([h1 EXCEPT !.registry = ProbeEmit(p, @, got.st),
                                  !.results = Append(@, TRUE)],
                       h.step + 1)

\* newSpectrumPasswordClient from the return of hc.Do on, newSpectrumClient
\* lines 64-67, probe lines 532-534, then the chain of probes
OnLoginResponse(h, resp) ==
    LET res == LoginResult(h.client.tgt, resp)
        h1 == [h EXCEPT !.recv = Append(@, resp)]
    IN  IF res.err THEN BadRequest(h1)
        ELSE RunProbes([h1 EXCEPT !.client = res.client], 1)

\* newSpectrumPasswordClient lines 80-88: send the login request
NewSpectrumPasswordClient(h, tgt, user, passwd) ==
    IF CtxDone(h) THEN BadRequest(h)
    ELSE [h EXCEPT !.pc = "login",
                   !.client = [NoClient EXCEPT !.tgt = tgt],
                   !.sent = Append(@, LoginRequest(tgt, user, passwd))]

\* newSpectrumClient testing the user alone (line 62 without its second
\* conjunct)
NewSpectrumClient_UserOnly(h, tgt) ==
    LET key == URLString(tgt)
    IN  IF key \notin DOMAIN authMap THEN BadRequest(h)
        ELSE IF authMap[key].User # ""
          THEN NewSpectrumPasswordClient(h, tgt, authMap[key].User,
                                         authMap[key].Password)
        ELSE BadRequest(h)

\* newSpectrumClient: the credentials of tgt.String(), or an error
NewSpectrumClient(h, tgt) ==
    LET key == URLString(tgt)
    IN  IF key \notin DOMAIN authMap THEN BadRequest(h)
        ELSE IF authMap[key].User # "" /\ authMap[key].Password # ""
          THEN NewSpectrumPasswordClient(h, tgt, authMap[key].User,
                                         authMap[key].Password)
        ELSE BadRequest(h)

\* the filter keeping the path of the target
FilterTarget_KeepPath(tgt) == URL(tgt.Scheme, "", tgt.Host, tgt.Path, "", "")

\* probe lines 526-530: "Filter anything else than scheme and hostname"
FilterTarget(tgt) == URL(tgt.Scheme, "", tgt.Host, "", "", "")

\* probe without the scheme test of lines 522-524
Probe_AnyScheme(h) ==
    IF h.target.form = "unparsable" THEN BadRequest(h)
    ELSE NewSpectrumClient(h, FilterTarget(UrlParse(h.target)))

\* probe lines 517-534
Probe(h) ==
    IF h.target.form = "unparsable" THEN BadRequest(h)
    ELSE LET tgt == UrlParse(h.target)
         IN  IF tgt.Scheme # "https" /\ tgt.Scheme # "http"
               THEN BadRequest(h)
             ELSE NewSpectrumClient(h, FilterTarget(tgt))

\* probeHandler with the registry made before the target is looked at
ProbeHandler_RegistryFirst(t) ==
    LET h == [Fresh("idle") EXCEPT
                !.target = t,
                !.registry = MustRegisterGauge(
                               MustRegisterGauge(NewRegistry, "probe_success"),
                               "probe_duration_seconds")]
    IN  IF t.form = "empty" THEN BadRequest(h) ELSE Probe(h)

\* probeHandler without lines 83-86 and 91: no duration gauge
ProbeHandler_NoDurationGauge(t) ==
    IF t.form = "empty" THEN BadRequest([Fresh("idle") EXCEPT !.target = t])
    ELSE Probe([Fresh("idle") EXCEPT
                  !.target = t,
                  !.registry = MustRegisterGauge(NewRegistry, "probe_success")])

\* probeHandler lines 73-93
ProbeHandler(t) ==
    IF t.form = "empty" THEN BadRequest([Fresh("idle") EXCEPT !.target = t])
    ELSE Probe([Fresh("idle") EXCEPT
                  !.target = t,
                  !.registry = MustRegisterGauge(
                                 MustRegisterGauge(NewRegistry, "probe_success"),
                                 "probe_duration_seconds")])

\* ------------------------------------------------------------- actions
\* what hc.Do returns for a request in flight: once the context of the
\* request is done the transport gives the request up and returns the
\* context's error, whatever the array would have answered
Answers(h, responses) == IF CtxDone(h) THEN {TransportError} ELSE responses

\* a /probe request arrives with target parameter t
Arrive(r, t) ==
    /\ pc[r] = "idle"
    /\ Apply(r, ProbeHandler(t))

\* the array answers the login
LoginResponse(r) ==
    /\ pc[r] = "login"
    /\ \E resp \in Answers(Local(r), LoginResponses) :
          Apply(r, OnLoginResponse(Local(r), resp))

\* the array answers the fetch of the running probe
FetchResponse(r) ==
    /\ pc[r] = "fetch"
    /\ \E resp \in Answers(Local(r), FetchResponses(ProbeSeq[step[r]])) :
          Apply(r, OnFetchResponse(Local(r), resp))

\* a tick of the clock while the handler waits for the array
Tick(r) ==
    /\ pc[r] \in {"login", "fetch"}
    /\ elapsed[r] < TimeoutTicks
    /\ elapsed' = [elapsed EXCEPT ![r] = @ + 1]
    /\ UNCHANGED << authMap, pc, target, client, registry, sent, recv, step,
                    results, cancelled, response, tvars >>

\* the caller of /probe goes away while the handler waits for the array
Cancel(r) ==
    /\ pc[r] \in {"login", "fetch"}
    /\ ~cancelled[r]
    /\ cancelled' = [cancelled EXCEPT ![r] = TRUE]
    /\ UNCHANGED << authMap, pc, target, client, registry, sent, recv, step,
                    results, elapsed, response, tvars >>

\* the handler has returned: its locals are gone, the slot is free
Return(r) ==
    /\ pc[r] = "done"
    /\ Apply(r, Fresh("idle"))

\* one request at a time
Init ==
    /\ authMap = AuthMapLoaded
    /\ pc = [r \in Reqs |-> IF r = 1 THEN "idle" ELSE "off"]
    /\ target = [r \in Reqs |-> NoTarget]
    /\ client = [r \in Reqs |-> NoClient]
    /\ registry = [r \in Reqs |-> NoRegistry]
    /\ sent = [r \in Reqs |-> <<>>]
    /\ recv = [r \in Reqs |-> <<>>]
    /\ step = [r \in Reqs |-> 0]
    /\ results = [r \in Reqs |-> <<>>]
    /\ elapsed = [r \in Reqs |-> 0]
    /\ cancelled = [r \in Reqs |-> FALSE]
    /\ response = [r \in Reqs |-> NoResponse]
    /\ testProbe = "none"
    /\ testData = NoBody
    /\ testRegistry = NoRegistry
    /\ testResult = "none"

Next ==
    \E r \in Reqs :
        \/ \E t \in Targets : Arrive(r, t)
        \/ LoginResponse(r)
        \/ FetchResponse(r)
        \/ Tick(r)
        \/ Cancel(r)
        \/ Return(r)

Spec == Init /\ [][Next]_vars

\* every upstream request returns: hc.Do comes back with a response, with
\* an error, or with the error of the context once the deadline has passed
FairSpec ==
    /\ Spec
    /\ \A r \in Reqs :
          WF_vars(LoginResponse(r)) /\ WF_vars(FetchResponse(r))

\* --------------------------------------------------- concurrent requests
\* The server runs probeHandler in a goroutine per request.  Here every
\* slot takes one request, against arrays whose data is fixed: the answer
\* to a request depends on the host and the path alone.

\* a credential file with three complete entries
AuthMapThree ==
    ( "https://a:7443" :> Auth("monitor", "passw0rd") )
    @@ ( "http://c" :> Auth("admin", "secret") )
    @@ ( "https://b" :> Auth("monitor2", "passw0rd2") )

\* the targets of the concurrent requests
FewTargets ==
    { Target("empty", "", "", "", "", "", ""),
      Target("url", "https", "", "a:7443", "", "", ""),
      Target("url", "http", "", "c", "", "", ""),
      Target("url", "https", "", "b", "", "", "") }

\* the records each array holds: array a has two FC port records of one
\* port, array c has other enclosures, pools and drives
FixedArray(host, p) ==
    CASE host = "a:7443" /\ p = "EnclosureStats" ->
           <<EnclosureStat("1", "power_w", <<"4", "2", "7">>),
             EnclosureStat("1", "temp_c", <<"2", "6">>)>>
      [] host = "a:7443" /\ p = "EnclosurePSUs" -> <<PSU("1", "1", "online")>>
      [] host = "a:7443" /\ p = "Pool" ->
           <<Pool("0", "Pool0", "online", <<"4", "4">>, <<"1", "0", "T", "B">>,
                  <<"9", ".", "9", "4", "T", "B">>, <<"5", "4", "G", "B">>)>>
      [] host = "a:7443" /\ p = "Drives" -> <<Drive("0", "1", "5", "online")>>
      [] host = "a:7443" /\ p = "NodeStats" ->
           <<NodeStat("1", "cpu_pc", <<"2", "4">>)>>
      [] host = "a:7443" /\ p = "FCPorts" ->
           <<FCPort("1", "1", "1", "5005", "active", <<"8", "G", "b">>),
             FCPort("1", "1", "1", "5006", "inactive_configured",
                    <<"1", "6", "G", "b">>)>>
      [] host = "a:7443" /\ p = "IPPorts" ->
           <<IPPort("1", "0", "1", "08:94", "configured", "active",
                    <<"1", "G", "b", "/", "s">>)>>
      [] host = "c" /\ p = "EnclosureStats" ->
           <<EnclosureStat("3", "power_w", <<"3", "0", "0">>)>>
      [] host = "c" /\ p = "EnclosurePSUs" -> <<PSU("3", "1", "degraded")>>
      [] host = "c" /\ p = "Pool" ->
           <<Pool("7", "Pool7", "offline", <<"2">>, <<"1", "T", "B">>,
                  <<"1", "T", "B">>, <<"0">>)>>
      [] OTHER -> <<>>

\* the answer of the array at host to the login: a and c give a token each,
\* b refuses
FixedLogin(host) ==
    CASE host = "a:7443" ->
           Response("", 200, Body("object", <<Member("token", "string", "T1")>>))
      [] host = "c" ->
           Response("", 200, Body("object", <<Member("token", "string", "T2")>>))
      [] OTHER -> Response("", 403, NoBody)

\* the answer of the array at host to the fetch of probe p: c fails on its
\* drives
FixedFetch(host, p) ==
    IF host = "c" /\ p = "Drives" THEN Response("", 500, NoBody)
    ELSE Response("", 200, Body("array", FixedArray(host, p)))

\* the array of the target answers the login
LoginAnswer(r) ==
    /\ pc[r] = "login"
    /\ \E resp \in Answers(Local(r), {FixedLogin(client[r].tgt.Host)}) :
          Apply(r, OnLoginResponse(Local(r), resp))

\* the array of the target answers the fetch of the running probe
FetchAnswer(r) ==
    /\ pc[r] = "fetch"
    /\ \E resp \in Answers(Local(r), {FixedFetch(client[r].tgt.Host,
                                                 ProbeSeq[step[r]])}) :
          Apply(r, OnFetchResponse(Local(r), resp))

\* every slot of the server is free
InitConcurrent ==
    /\ authMap = AuthMapThree
    /\ pc = [r \in Reqs |-> "idle"]
    /\ target = [r \in Reqs |-> NoTarget]
    /\ client = [r \in Reqs |-> NoClient]
    /\ registry = [r \in Reqs |-> NoRegistry]
    /\ sent = [r \in Reqs |-> <<>>]
    /\ recv = [r \in Reqs |-> <<>>]
    /\ step = [r \in Reqs |-> 0]
    /\ results = [r \in Reqs |-> <<>>]
    /\ elapsed = [r \in Reqs |-> 0]
    /\ cancelled = [r \in Reqs |-> FALSE]
    /\ response = [r \in Reqs |-> NoResponse]
    /\ testProbe = "none"
    /\ testData = NoBody
    /\ testRegistry = NoRegistry
    /\ testResult = "none"

NextConcurrent ==
    \E r \in Reqs :
        \/ \E t \in FewTargets : Arrive(r, t)
        \/ LoginAnswer(r)
        \/ FetchAnswer(r)
        \/ Cancel(r)

SpecConcurrent == InitConcurrent /\ [][NextConcurrent]_vars

\* ---------------------------------------------------------- unit tests
\* The tests of probe_test.go call one probe function with a fakeClient,
\* whose Get is json.Unmarshal of the data prepared for the path, and a
\* fresh registry, and then look at the registry.  Here the data is any
\* body over the records below instead of the files of testdata.

\* the records a test array is made of, for each probe
TestRecords(p) ==
    CASE p = "EnclosureStats" ->
           { EnclosureStat(e, n, c) :
               e \in {"1", "2"}, n \in {"power_w", "temp_c", "fan_rpm"},
               c \in {<<"4", "2", "7">>, <<"N", "/", "A">>} }
      [] p = "EnclosurePSUs" ->
           { PSU("1", u, s) :
               u \in {"1", "2"},
               s \in {"online", "offline", "degraded", "unknown"} }
      [] p = "Pool" ->
           { Pool(i, "Pool" \o i, s, <<"4", "4">>, <<"1", "0", "T", "B">>,
                  <<"9", ".", "9", "4", "T", "B">>, <<"5", "4", "G", "B">>) :
               i \in {"0", "1"}, s \in {"online", "offline", "degraded"} }
           \cup
           { Pool("0", "Pool0", "online", <<"4", "4">>, c, f, u) :
               c \in {<<"1", "0", "T", "B">>, <<"m", "a", "n", "y">>},
               f \in {<<"9", ".", "9", "4", "T", "B">>, <<>>},
               u \in {<<"5", "4", "G", "B">>, <<"5", "4", "G">>} }
           \cup
           { Pool("0", "Pool0", "online", <<"x">>, <<"1", "0", "T", "B">>,
                  <<"9", ".", "9", "4", "T", "B">>, <<"5", "4", "G", "B">>) }
      [] p = "Drives" ->
           { Drive(i, "1", "5", s) :
               i \in {"0", "1"},
               s \in {"online", "offline", "degraded", "unknown"} }
      [] p = "NodeStats" ->
           { NodeStat(n, t, <<"2", "4">>) :
               n \in {"1", "2"},
               t \in {"compression_cpu_pc", "cpu_pc", "write_cache_pc",
                      "total_cache_pc", "fc_mb", "iscsi_mb", "sas_mb",
                      "fc_io", "iscsi_io", "sas_io", "mdisk_ms"} }
           \cup
           { NodeStat("1", t, <<"2", ".", "5">>) : t \in {"cpu_pc", "mdisk_ms"} }
      [] p = "FCPorts" ->
           { FCPort(n, "1", "1", w, s, <<"8", "G", "b">>) :
               n \in {"1", "2"}, w \in {"5005", "5006"},
               s \in {"active", "inactive_unconfigured",
                      "inactive_configured", "unknown"} }
           \cup
           { FCPort("1", "1", "1", "5005", "active", v) :
               v \in { <<"1", "6", "G", "b">>, <<"N", "/", "A">>, <<"8">>,
                       <<"G", "b">>, <<"8", "G", "b", "/", "s">>,
                       <<"8", ".", "5", "G", "b">>, <<"-", "1", "G", "b">> } }
      [] p = "IPPorts" ->
           { IPPort(n, "0", "1", m, s, "active", <<"1", "G", "b", "/", "s">>) :
               n \in {"1", "2"}, m \in {"08:94", "08:95"},
               s \in {"configured", "unconfigured", "management_only",
                      "unknown"} }
           \cup
           { IPPort("1", "0", "1", "08:94", "configured", l, v) :
               l \in {"active", "inactive"},
               v \in { <<"1", "0", "0", "M", "b", "/", "s">>,
                       <<"1", "0", "G", "b">>, <<"M", "b", "/", "s">>,
                       <<"1", ".", "5", "G", "b", "/", "s">>,
                       <<"N", "/", "A">> } }
      [] OTHER -> {}

\* the arrays of at most MaxRecords records
TestArrays(p) == UNION { [1 .. n -> TestRecords(p)] : n \in 0 .. MaxRecords }

\* c.prepare(path, file): the data the fakeClient holds for the path
TestBodies(p) ==
    { Body("null", <<>>), Body("invalid", <<>>), Body("object", <<>>) }
    \cup { Body("array", a) : a \in TestArrays(p) }

\* the probe functions that have a test
TestedProbes == { ProbeSeq[i] : i \in { j \in 1 .. NumProbes : Fetches(ProbeSeq[j]) } }

\* a probe function called with the fakeClient holding body and with
\* registry reg: it registers its families, gets and decodes the records
\* and, without an error, runs its loop
ProbeCall(p, reg, body) ==
    LET r1 == RegisterAll(reg, ProbeFamilies(p))
        got == UnmarshalSlice(body, ProbeIntFields(p))
    IN  IF got.err THEN [ok |-> FALSE, registry |-> r1]
        ELSE [ok |-> TRUE, registry |-> ProbeEmit(p, r1, got.st)]

\* the test of probe function p runs up to the comparison of the registry
RunTest(p) ==
    /\ testProbe = p
    /\ testResult = "none"
    /\ LET o == ProbeCall(p, testRegistry, testData)
       IN  /\ testRegistry' = o.registry
           /\ testResult' = IF o.ok THEN "true" ELSE "false"
    /\ UNCHANGED << authMap, pc, target, client, registry, sent, recv, step,
                    results, elapsed, cancelled, response, testProbe,
                    testData >>

TestEnclosureStats == RunTest("EnclosureStats")
TestEnclosurePSU == RunTest("EnclosurePSUs")
TestPool == RunTest("Pool")
TestDrive == RunTest("Drives")
TestNodeStats == RunTest("NodeStats")
TestFCPorts == RunTest("FCPorts")
TestIPPorts == RunTest("IPPorts")

\* a test starts with prepared data and a fresh registry; no server runs
InitTest ==
    /\ authMap = AuthMapLoaded
    /\ pc = [r \in Reqs |-> "off"]
    /\ target = [r \in Reqs |-> NoTarget]
    /\ client = [r \in Reqs |-> NoClient]
    /\ registry = [r \in Reqs |-> NoRegistry]
    /\ sent = [r \in Reqs |-> <<>>]
    /\ recv = [r \in Reqs |-> <<>>]
    /\ step = [r \in Reqs |-> 0]
    /\ results = [r \in Reqs |-> <<>>]
    /\ elapsed = [r \in Reqs |-> 0]
    /\ cancelled = [r \in Reqs |-> FALSE]
    /\ response = [r \in Reqs |-> NoResponse]
    /\ testProbe \in TestedProbes
    /\ testData \in TestBodies(testProbe)
    /\ testRegistry = NewRegistry
    /\ testResult = "none"

NextTest ==
    \/ TestEnclosureStats
    \/ TestEnclosurePSU
    \/ TestPool
    \/ TestDrive
    \/ TestNodeStats
    \/ TestFCPorts
    \/ TestIPPorts

SpecTest == InitTest /\ [][NextTest]_vars

\* ================================================================ claims
\* the handler of request r has run (it waits for the array or is done)
Started(r) == pc[r] \in {"login", "fetch", "done"}
Done(r) == pc[r] = "done"

\* the string "scheme://host[:port]" of a target, as the credential file
\* writes it
TargetKey(t) == ToLower(t.scheme) \o "://" \o t.host

\* the credential map holds a complete entry for the target
HasCredential(t) ==
    /\ TargetKey(t) \in DOMAIN authMap
    /\ authMap[TargetKey(t)].User # ""
    /\ authMap[TargetKey(t)].Password # ""

SchemeOK(t) == ToLower(t.scheme) \in {"http", "https"}

Rejected(r) ==
    /\ Done(r)
    /\ response[r] = [status |-> 400, kind |-> "text", series |-> {}]

\* the served body is the serialized sink
ServedSink(r) == Done(r) /\ response[r].kind = "metrics"

\* the value of the plain gauge name in the served sink of r
Served(r, name, v) == Series(name, <<>>, v) \in response[r].series
HasGauge(r, name) == \E s \in response[r].series : s.name = name /\ s.labels = <<>>

\* C1: a target whose "scheme://host[:port]" has no entry in the credential
\* map, or an entry with an empty user or password, is rejected and no
\* upstream request (login or fetch) is sent for it.
C1_NoCredentialNoRequest ==
    \A r \in Reqs :
        (Started(r) /\ target[r].form = "url" /\ ~HasCredential(target[r]))
            => Rejected(r) /\ sent[r] = <<>>

\* C1 happens: a request for https://b, whose entry has no password, was
\* answered
C1_Witness ==
    \E r \in Reqs :
        /\ Rejected(r)
        /\ target[r].form = "url"
        /\ TargetKey(target[r]) = "https://b"
        /\ sent[r] = <<>>

\* the handler of r holds a session: the login succeeded
HasSession(r) == client[r].made

\* the served sink of r holds both handler gauges
BothGauges(r) ==
    /\ ServedSink(r)
    /\ HasGauge(r, "probe_success")
    /\ HasGauge(r, "probe_duration_seconds")

\* C2 as stated: every /probe request with a non-empty target is answered
\* with the serialized sink, holding probe_success and
\* probe_duration_seconds, whatever the outcome of the orchestrator.
C2_Original ==
    \A r \in Reqs :
        (Done(r) /\ target[r].form # "empty") => BothGauges(r)

\* C2 amended: a /probe request with a non-empty target is answered with
\* the serialized sink, holding probe_success and probe_duration_seconds,
\* exactly when probe returned no error, that is when the login succeeded,
\* whatever the resource probes did then; when probe returned an error
\* (unparsable target, scheme, credentials, login) the answer is a 400
\* with the error text and no metrics.
C2_SinkServedIffSession ==
    \A r \in Reqs :
        (Done(r) /\ target[r].form # "empty") =>
            /\ HasSession(r) => BothGauges(r)
            /\ ~HasSession(r) => Rejected(r)

\* C2 happens: a sink was served after a failed fetch, with both gauges
C2_Witness ==
    \E r \in Reqs :
        /\ BothGauges(r)
        /\ \E i \in 1 .. Len(results[r]) : ~results[r][i]

\* the probe failed at the credentials, at the login, or at a fetch
CredentialError(r) ==
    target[r].form = "url" /\ SchemeOK(target[r]) /\ ~HasCredential(target[r])
AuthError(r) == Len(recv[r]) >= 1 /\ ~HasSession(r)
FetchError(r) == \E i \in 1 .. Len(results[r]) : ~results[r][i]

\* C3 as stated: every probe-level failure gives an HTTP error status on
\* the /probe response.
C3_Original ==
    \A r \in Reqs :
        (Done(r) /\ (CredentialError(r) \/ AuthError(r) \/ FetchError(r)))
            => response[r].status >= 400

\* C3 amended: a credential-resolution error and an authentication error
\* give status 400 on the /probe response, with no metrics; a fetch error
\* in a resource probe gives status 200 and a sink whose probe_success
\* is 0.
C3_FailureStatus ==
    \A r \in Reqs :
        Done(r) =>
            /\ (CredentialError(r) \/ AuthError(r)) => Rejected(r)
            /\ FetchError(r) =>
                 /\ response[r].status = 200
                 /\ ServedSink(r)
                 /\ Served(r, "probe_success", Float(0))

\* C3 happens: a login was refused with 403 and the request answered
C3_Witness ==
    \E r \in Reqs :
        /\ Done(r)
        /\ AuthError(r)
        /\ recv[r][1].status = 403

\* the first probe of r that returned false
FirstFailure(r) ==
    CHOOSE k \in 1 .. Len(results[r]) :
        ~results[r][k] /\ \A i \in 1 .. (k - 1) : results[r][i]

\* where the response to the fetch of the j-th probe is in recv: after the
\* login response and the responses to the fetching probes before it
RecvPos(j) == 1 + Cardinality({ i \in 1 .. j : Fetches(ProbeSeq[i]) })

FamilySet(p) == { ProbeFamilies(p)[i] : i \in DOMAIN ProbeFamilies(p) }

\* the series the j-th probe of r emits from the response it got
SeriesOfProbe(r, j) ==
    LET p == ProbeSeq[j]
    IN  IF ~Fetches(p) THEN {}
        ELSE ProbeEmit(p, RegisterAll(NewRegistry, ProbeFamilies(p)),
                       UnmarshalSlice(recv[r][RecvPos(j)].body,
                                      ProbeIntFields(p)).st).series

HandlerGauges == {"probe_success", "probe_duration_seconds"}

\* C4: when the k-th probe is the first whose fetch fails, the served sink
\* holds every series of the probes 1..k-1, no series of probe k or of a
\* later probe, and probe_success = 0.
C4_SinkUpToFailure ==
    \A r \in Reqs :
        (ServedSink(r) /\ FetchError(r)) =>
            LET k == FirstFailure(r)
            IN  /\ \A j \in 1 .. (k - 1) :
                      SeriesOfProbe(r, j) \subseteq response[r].series
                /\ \A s \in response[r].series :
                      s.name \in HandlerGauges
                        \cup UNION { FamilySet(ProbeSeq[j]) : j \in 1 .. (k - 1) }
                /\ Served(r, "probe_success", Float(0))

\* C4 happens: the drive probe (the 4th) failed after three probes that
\* left series, the pool's among them
C4_Witness ==
    \E r \in Reqs :
        /\ ServedSink(r)
        /\ results[r] = <<TRUE, TRUE, TRUE, FALSE>>
        /\ \E s \in response[r].series : s.name = "spectrum_pool_free_bytes"
        /\ \E s \in response[r].series : s.name = "spectrum_power_watts"

\* C5: in the served sink probe_success is 1 exactly when the login
\* succeeded and every resource probe returned true, and 0 otherwise;
\* probe_duration_seconds is set in both cases.
C5_SuccessIffAllProbes ==
    \A r \in Reqs :
        ServedSink(r) =>
            /\ Served(r, "probe_success", Float(1)) <=>
                 /\ HasSession(r)
                 /\ Len(results[r]) = NumProbes
                 /\ \A i \in 1 .. NumProbes : results[r][i]
            /\ Served(r, "probe_success", Float(1))
                 \/ Served(r, "probe_success", Float(0))
            /\ \E s \in response[r].series :
                 /\ s.name = "probe_duration_seconds"
                 /\ s.labels = <<>>
                 /\ s.value # Float(0)

\* C5 happens: a sink with probe_success = 1 was served
C5_Witness ==
    \E r \in Reqs :
        /\ ServedSink(r)
        /\ Served(r, "probe_success", Float(1))
        /\ Len(sent[r]) = 8

\* C6: a /probe request without target, or with an empty one, gets a
\* client-error status and no metrics; no registry was made and no
\* upstream request sent for it.
C6_EmptyTargetRejectedFirst ==
    \A r \in Reqs :
        (Done(r) /\ target[r].form = "empty") =>
            /\ Rejected(r)
            /\ ~registry[r].created
            /\ sent[r] = <<>>
            /\ ~HasSession(r)

\* C6 happens: a request without target was answered
C6_Witness ==
    \E r \in Reqs :
        /\ Done(r)
        /\ target[r].form = "empty"
        /\ response[r].status = 400

\* C7: a target whose parsed scheme is neither http nor https is rejected
\* with no upstream request, even when the credential map has an entry
\* for it; a login is sent for http and https targets only.
C7_SchemeFailClosed ==
    \A r \in Reqs :
        /\ (Started(r) /\ target[r].form = "url" /\ ~SchemeOK(target[r]))
              => Rejected(r) /\ sent[r] = <<>>
        /\ sent[r] # <<>> => SchemeOK(target[r])

\* C7 happens: a request for ftp://d, which has credentials, was rejected
C7_Witness ==
    \E r \in Reqs :
        /\ Rejected(r)
        /\ target[r].form = "url"
        /\ TargetKey(target[r]) = "ftp://d"
        /\ HasCredential(target[r])
        /\ sent[r] = <<>>

\* the probes that fetch, in order
FetchProbes == SelectSeq(ProbeSeq, Fetches)

\* the path of the i-th upstream request of an invocation
PathOfRequest(i) ==
    IF i = 1 THEN "/rest/auth" ELSE "/" \o ProbePath(FetchProbes[i - 1])

\* C8: only the scheme and the host of the target are used.  The i-th
\* upstream request URL is scheme://host followed by the i-th fixed path,
\* so it is the same for targets that differ in userinfo, path, query or
\* fragment and holds nothing of those; and the credentials sent are those
\* of the entry scheme://host, which such targets share: a target whose
\* scheme://host has complete credentials gets its login sent.
C8_OnlySchemeAndHost ==
    \A r \in Reqs :
        /\ \A i \in 1 .. Len(sent[r]) :
              sent[r][i].url = TargetKey(target[r]) \o PathOfRequest(i)
        /\ (Started(r) /\ target[r].form = "url" /\ SchemeOK(target[r])
                /\ HasCredential(target[r]))
              => /\ sent[r] # <<>>
                 /\ sent[r][1].headers =
                      { <<"X-Auth-Username", authMap[TargetKey(target[r])].User>>,
                        <<"X-Auth-Password",
                          authMap[TargetKey(target[r])].Password>> }

\* C8 happens: a target with userinfo, path, query and fragment got its
\* login and a fetch sent
C8_Witness ==
    \E r \in Reqs :
        /\ Len(sent[r]) >= 2
        /\ target[r].user = "eve"
        /\ target[r].path = "/x"
        /\ target[r].query = "q=1"
        /\ target[r].fragment = "frag"
        /\ sent[r][2].url = "https://a:7443/rest/lsenclosurestats"

IsLogin(req) == \E h \in req.headers : h[1] = "X-Auth-Username"

\* the token member of a login response body, "" without one
TokenIn(resp) ==
    IF resp.body.json = "object"
         /\ \E i \in DOMAIN resp.body.val : MatchesToken(resp.body.val[i].k)
      THEN LET i == CHOOSE i \in DOMAIN resp.body.val :
                        MatchesToken(resp.body.val[i].k)
           IN  resp.body.val[i].v
    ELSE ""

\* C9: in one invocation the login is the first upstream request and the
\* only login, also after a failed fetch; every fetch carries in
\* X-Auth-Token the token the login returned, and nothing else.
C9_OneLoginOneToken ==
    \A r \in Reqs :
        \A i \in 1 .. Len(sent[r]) :
            /\ IsLogin(sent[r][i]) <=> i = 1
            /\ i > 1 =>
                 /\ Len(recv[r]) >= 1
                 /\ sent[r][i].headers = { <<"X-Auth-Token", TokenIn(recv[r][1])>> }

\* C9 happens: the login returned T2, two fetches carried it, the second
\* failed, and the invocation ended with those three requests
C9_Witness ==
    \E r \in Reqs :
        /\ Done(r)
        /\ results[r] = <<TRUE, FALSE>>
        /\ Len(sent[r]) = 3
        /\ TokenIn(recv[r][1]) = "T2"
        /\ sent[r][3].headers = { <<"X-Auth-Token", "T2">> }

\* C10 as stated: there is a session only when the login response had a
\* success status and a JSON body with a token member, and no fetch is
\* sent with an empty token.
C10_SessionNeedsToken ==
    \A r \in Reqs :
        /\ HasSession(r) =>
              /\ recv[r][1].err = ""
              /\ recv[r][1].status = 200
              /\ recv[r][1].body.json = "object"
              /\ \E i \in DOMAIN recv[r][1].body.val :
                    MatchesToken(recv[r][1].body.val[i].k)
        /\ \A i \in 2 .. Len(sent[r]) :
              <<"X-Auth-Token", "">> \notin sent[r][i].headers

\* ---------------------------------------------------------------- C11
\* the fetch that got resp failed: a transport error (sending, or reading
\* the body), a status other than 200, or a body that does not decode
\* into the records of probe p
FetchFails(p, resp) ==
    \/ resp.err # ""
    \/ resp.status # 200
    \/ UnmarshalSlice(resp.body, ProbeIntFields(p)).err

\* C11: each resource probe returns false exactly when its fetch failed
\* (transport error, status other than 200, JSON decode error) and true
\* otherwise, an empty collection included.
C11_ProbeFalseIffFetchFails ==
    \A r \in Reqs :
        \A j \in 1 .. Len(results[r]) :
            Fetches(ProbeSeq[j]) =>
                /\ Len(recv[r]) >= RecvPos(j)
                /\ results[r][j] = ~FetchFails(ProbeSeq[j], recv[r][RecvPos(j)])

\* C11 happens: the FC port probe returned true on an empty array after
\* the other probes returned true, and the IP port probe returned false on
\* a 403 that carried a well-formed array
C11_Witness ==
    \E r \in Reqs :
        /\ Len(results[r]) = NumProbes
        /\ results[r][7]
        /\ recv[r][RecvPos(7)].body = Body("array", <<>>)
        /\ ~results[r][8]
        /\ recv[r][RecvPos(8)].status = 403

\* --------------------------------------------------- claims on the tests
\* the test of probe p has run
Tested(p) == testProbe = p /\ testResult # "none"
\* the records the probe function decoded in the test
TestSt == UnmarshalSlice(testData, ProbeIntFields(testProbe)).st

\* the test returned true: the data decoded and the loop ran over TestSt
TestPassed(p) == Tested(p) /\ testResult = "true"

\* the registry of the test right after the loop iteration of record i
RegistryAfter(i) ==
    ProbeCall(testProbe, NewRegistry,
              Body("array", SubSeq(testData.val, 1, i))).registry

\* ---------------------------------------------------------------- C12
\* the probes with a categorical field, its metric, its enumerated values,
\* the field of a record and the record's label set
StatusProbes == {"EnclosurePSUs", "Pool", "Drives", "FCPorts", "IPPorts"}
StatusMetric(p) ==
    CASE p = "EnclosurePSUs" -> "spectrum_psu_status"
      [] p = "Pool" -> "spectrum_pool_status"
      [] p = "Drives" -> "spectrum_drive_status"
      [] p = "FCPorts" -> "spectrum_fc_port_status"
      [] p = "IPPorts" -> "spectrum_ip_port_state"
StatusValues(p) ==
    CASE p \in {"EnclosurePSUs", "Drives"} -> {"online", "offline", "degraded"}
      [] p = "Pool" -> {"online", "offline"}
      [] p = "FCPorts" ->
           {"active", "inactive_unconfigured", "inactive_configured"}
      [] p = "IPPorts" -> {"configured", "unconfigured", "management_only"}
StatusOf(p, s) == IF p = "IPPorts" THEN s.state ELSE s.status
StatusKey(p, s) ==
    CASE p = "EnclosurePSUs" -> <<s.enclosure_id, s.psu_id>>
      [] p = "Pool" -> <<s.id, s.name>>
      [] p = "Drives" -> <<s.enclosure_id, s.slot_id, s.id>>
      [] p = "FCPorts" ->
           <<s.node_id, s.adapter_location, s.adapter_port_id, s.WWPN>>
      [] p = "IPPorts" ->
           <<s.node_id, s.adapter_location, s.adapter_port_id, s.MAC>>

\* the indicator points of the label set of record s in registry reg
Indicators(p, s, reg) ==
    { x \in reg.series :
        /\ x.name = StatusMetric(p)
        /\ Len(x.labels) = Len(StatusKey(p, s)) + 1
        /\ SubSeq(x.labels, 1, Len(x.labels) - 1) = StatusKey(p, s) }
IndicatorValue(x) == x.labels[Len(x.labels)]

\* one point per enumerated value, the one of the record's value at 1 and
\* the others at 0
OneHot(p, s, reg) ==
    LET ind == Indicators(p, s, reg)
    IN  /\ { IndicatorValue(x) : x \in ind } = StatusValues(p)
        /\ Cardinality(ind) = Cardinality(StatusValues(p))
        /\ \A x \in ind :
              x.value = Float(IF IndicatorValue(x) = StatusOf(p, s) THEN 1 ELSE 0)
        /\ Cardinality({ x \in ind : x.value = Float(1) }) = 1

\* no later record of the array has the label set of record i
LastOfKey(p, st, i) ==
    \A j \in (i + 1) .. Len(st) : StatusKey(p, st[j]) # StatusKey(p, st[i])

\* C12: for every record whose status (state) is one of the enumerated
\* values the probe emits one indicator point per enumerated value for the
\* record's label set, exactly one of them 1, the one of the record's
\* value, and the rest 0: so is the registry right after the record's
\* loop iteration, and so is the final registry unless a later record has
\* the same label set.
C12_OneHotForKnownStatus ==
    \A p \in StatusProbes :
        TestPassed(p) =>
            \A i \in 1 .. Len(TestSt) :
                StatusOf(p, TestSt[i]) \in StatusValues(p) =>
                    /\ OneHot(p, TestSt[i], RegistryAfter(i))
                    /\ LastOfKey(p, TestSt, i) =>
                           OneHot(p, TestSt[i], testRegistry)

\* C12 happens: the drive test ran on a degraded and an online drive
C12_Witness ==
    /\ TestPassed("Drives")
    /\ Len(TestSt) = 2
    /\ TestSt[1].status = "degraded" /\ TestSt[1].id = "0"
    /\ TestSt[2].status = "online" /\ TestSt[2].id = "1"
    /\ Series("spectrum_drive_status", <<"1", "5", "0", "degraded">>,
              Float(1)) \in testRegistry.series
    /\ Series("spectrum_drive_status", <<"1", "5", "1", "degraded">>,
              Float(0)) \in testRegistry.series

\* ---------------------------------------------------------------- C13
\* no other record of the array has the label set of record i
OnlyOfKey(p, st, i) ==
    \A j \in 1 .. Len(st) :
        j # i => StatusKey(p, st[j]) # StatusKey(p, st[i])

UnknownStatus(p, s) == StatusOf(p, s) \notin StatusValues(p)

\* C13 as stated: for a record whose status (state) is not one of the
\* enumerated values, no status series of the record's label set exists
\* in the sink.
C13_Original ==
    \A p \in StatusProbes :
        TestPassed(p) =>
            \A i \in 1 .. Len(TestSt) :
                (UnknownStatus(p, TestSt[i]) /\ OnlyOfKey(p, TestSt, i)) =>
                    Indicators(p, TestSt[i], testRegistry) = {}

\* all the indicator points of the record's label set, every one at 0
AllZero(p, s, reg) ==
    LET ind == Indicators(p, s, reg)
    IN  /\ { IndicatorValue(x) : x \in ind } = StatusValues(p)
        /\ Cardinality(ind) = Cardinality(StatusValues(p))
        /\ \A x \in ind : x.value = Float(0)

\* C13 amended: for a record whose status (state) is not one of the
\* enumerated values, the drive, PSU, pool, FC port and IP port probes
\* still emit one indicator point per enumerated value for the record's
\* label set, every one of them 0.
C13_AllZeroForUnknownStatus ==
    \A p \in StatusProbes :
        TestPassed(p) =>
            \A i \in 1 .. Len(TestSt) :
                UnknownStatus(p, TestSt[i]) =>
                    /\ AllZero(p, TestSt[i], RegistryAfter(i))
                    /\ LastOfKey(p, TestSt, i) =>
                           AllZero(p, TestSt[i], testRegistry)

\* C13 happens: the pool test ran on a pool that is degraded
C13_Witness ==
    /\ TestPassed("Pool")
    /\ Len(TestSt) = 1
    /\ TestSt[1].status = "degraded"
    /\ Series("spectrum_pool_status", <<"0", "Pool0", "online">>,
              Float(0)) \in testRegistry.series
    /\ Series("spectrum_pool_status", <<"0", "Pool0", "offline">>,
              Float(0)) \in testRegistry.series

\* ---------------------------------------------------------------- C14
\* the metric of an enclosure stat, and the node stats that have a metric
EnclosureMetric(n) ==
    CASE n = "power_w" -> "spectrum_power_watts"
      [] n = "temp_c" -> "spectrum_temperature"
EnclosureStatNames == {"power_w", "temp_c"}
NodeStatNames ==
    {"compression_cpu_pc", "cpu_pc", "write_cache_pc", "total_cache_pc",
     "fc_mb", "iscsi_mb", "sas_mb", "fc_io", "iscsi_io", "sas_io"}

\* the series of a registry by name and labels
SeriesKeys(reg) == { <<x.name, x.labels>> : x \in reg.series }

\* C14: the enclosure-stats probe emits exactly one series for a record
\* whose stat_name is power_w (spectrum_power_watts{enclosure}) or temp_c
\* (spectrum_temperature{enclosure}), with value stat_current, and none
\* for a record with another stat_name, so that the sink holds the series
\* of the power_w and temp_c records and no other; the node-stats probe
\* emits nothing for a stat_name outside its ten names.
C14_OneSeriesPerKnownStat ==
    /\ TestPassed("EnclosureStats") =>
         /\ \A i \in 1 .. Len(TestSt) :
               LET s == TestSt[i]
                   before == RegistryAfter(i - 1)
                   after == RegistryAfter(i)
               IN  IF s.stat_name \in EnclosureStatNames
                     THEN /\ Series(EnclosureMetric(s.stat_name),
                                    <<s.enclosure_id>>,
                                    Float(s.stat_current)) \in after.series
                          /\ SeriesKeys(after) = SeriesKeys(before) \cup
                               {<<EnclosureMetric(s.stat_name),
                                  <<s.enclosure_id>> >>}
                   ELSE after = before
         /\ SeriesKeys(testRegistry) =
               { <<EnclosureMetric(TestSt[i].stat_name),
                   <<TestSt[i].enclosure_id>> >> :
                 i \in { j \in 1 .. Len(TestSt) :
                           TestSt[j].stat_name \in EnclosureStatNames } }
    /\ TestPassed("NodeStats") =>
         /\ \A i \in 1 .. Len(TestSt) :
               TestSt[i].stat_name \notin NodeStatNames =>
                   RegistryAfter(i) = RegistryAfter(i - 1)
         /\ \A x \in testRegistry.series :
               \E i \in 1 .. Len(TestSt) :
                   /\ TestSt[i].stat_name \in NodeStatNames
                   /\ x.labels = <<TestSt[i].node_id>>

\* C14 happens: the enclosure test ran on a power_w and a fan_rpm record
\* and left the one series of the power
C14_Witness ==
    /\ TestPassed("EnclosureStats")
    /\ Len(TestSt) = 2
    /\ TestSt[1].stat_name = "power_w"
    /\ TestSt[2].stat_name = "fan_rpm"
    /\ testRegistry.series =
         {Series("spectrum_power_watts", <<TestSt[1].enclosure_id>>,
                 Float(427))}

\* ---------------------------------------------------------------- C15
\* the metric of each node stat and the scaling of its value
NodeMetric(n) ==
    CASE n = "compression_cpu_pc" -> "spectrum_node_compression_usage_ratio"
      [] n = "cpu_pc" -> "spectrum_node_system_usage_ratio"
      [] n = "write_cache_pc" -> "spectrum_node_write_cache_usage_ratio"
      [] n = "total_cache_pc" -> "spectrum_node_total_cache_usage_ratio"
      [] n = "fc_mb" -> "spectrum_node_fc_bps"
      [] n = "iscsi_mb" -> "spectrum_node_iscsi_bps"
      [] n = "sas_mb" -> "spectrum_node_sas_bps"
      [] n = "fc_io" -> "spectrum_node_fc_iops"
      [] n = "iscsi_io" -> "spectrum_node_iscsi_iops"
      [] n = "sas_io" -> "spectrum_node_sas_iops"
NodeScale(n) ==
    CASE n \in {"compression_cpu_pc", "cpu_pc", "write_cache_pc",
                "total_cache_pc"} -> "/100"
      [] n \in {"fc_mb", "iscsi_mb", "sas_mb"} -> "*2^20"
      [] n \in {"fc_io", "iscsi_io", "sas_io"} -> "1"
\* the series of node stat s
NodeSeries(s) ==
    Series(NodeMetric(s.stat_name), <<s.node_id>>,
           IF s.stat_current = 0 THEN <<0, <<>>, "1">>
           ELSE <<s.stat_current, <<>>, NodeScale(s.stat_name)>>)
\* no later record of the array is the same stat of the same node
LastOfStat(st, i) ==
    \A j \in (i + 1) .. Len(st) :
        ~(st[j].stat_name = st[i].stat_name /\ st[j].node_id = st[i].node_id)

\* C15: in the node-stats probe a record with integer value v is emitted
\* as v/100 for the four percentage stats, as v*1024*1024 for the three
\* throughput stats and as v for the three IOPS stats, each stat to a
\* metric of its own keyed by the node id.
C15_NodeStatScaling ==
    /\ \A m, n \in NodeStatNames : NodeMetric(m) = NodeMetric(n) => m = n
    /\ TestPassed("NodeStats") =>
         \A i \in 1 .. Len(TestSt) :
             TestSt[i].stat_name \in NodeStatNames =>
                 /\ NodeSeries(TestSt[i]) \in RegistryAfter(i).series
                 /\ SeriesKeys(RegistryAfter(i)) =
                      SeriesKeys(RegistryAfter(i - 1)) \cup
                        {<<NodeMetric(TestSt[i].stat_name),
                           <<TestSt[i].node_id>> >>}
                 /\ LastOfStat(TestSt, i) =>
                        NodeSeries(TestSt[i]) \in testRegistry.series

\* C15 happens: the node test ran on compression_cpu_pc 24 of node 1 and
\* fc_mb 24 of node 2 and left 24/100 and 24*2^20
C15_Witness ==
    /\ TestPassed("NodeStats")
    /\ Len(TestSt) = 2
    /\ testRegistry.series =
         { Series("spectrum_node_compression_usage_ratio", <<"1">>,
                  <<24, <<>>, "/100">>),
           Series("spectrum_node_fc_bps", <<"2">>, <<24, <<>>, "*2^20">>) }

\* ---------------------------------------------------------------- C16
\* the text of an integer, as "<integer>" is read: digits after an
\* optional sign; and the integer
IntegerText(cs) ==
    LET ds == IF cs # <<>> /\ cs[1] \in {"+", "-"} THEN Tail(cs) ELSE cs
    IN  ds # <<>> /\ \A i \in 1 .. Len(ds) : ds[i] \in Digits
IntegerOf(cs) ==
    IF cs[1] = "-" THEN 0 - DecimalValue(Tail(cs))
    ELSE IF cs[1] = "+" THEN DecimalValue(Tail(cs))
    ELSE DecimalValue(cs)
\* cs is "<integer>" followed by suf
IntegerWith(cs, suf) ==
    HasSuffix(cs, suf) /\ IntegerText(SubSeq(cs, 1, Len(cs) - Len(suf)))
\* the value n times the multiplier m
Times(n, m) == IF n = 0 THEN <<0, <<>>, "1">> ELSE <<n, <<>>, m>>
Zero == <<0, <<>>, "1">>

PortKey(s) == <<s.node_id, s.adapter_location, s.adapter_port_id>>
LastOfPort(st, i) ==
    \A j \in (i + 1) .. Len(st) : PortKey(st[j]) # PortKey(st[i])

\* the speed the claim gives an FC port_speed string
FCSpeedOf(cs) ==
    IF IntegerWith(cs, <<"G", "b">>)
      THEN Times(IntegerOf(SubSeq(cs, 1, Len(cs) - 2)), "*10^9")
    ELSE Zero

\* C16: in the FC port probe a port_speed "<integer>Gb" gives a speed of
\* integer*10^9 and every other string gives 0; a speed series is emitted
\* for every record, keyed by the port.
C16_FCPortSpeed ==
    TestPassed("FCPorts") =>
        \A i \in 1 .. Len(TestSt) :
            LET s == TestSt[i]
                point == Series("spectrum_fc_port_speed_bps", PortKey(s),
                                FCSpeedOf(s.port_speed))
            IN  /\ point \in RegistryAfter(i).series
                /\ LastOfPort(TestSt, i) => point \in testRegistry.series

\* C16 happens: the FC test ran on a port of node 2 at 8Gb and a port of
\* node 1 whose speed is N/A
C16_Witness ==
    /\ TestPassed("FCPorts")
    /\ Len(TestSt) = 2
    /\ TestSt[1].port_speed = <<"8", "G", "b">>
    /\ TestSt[2].port_speed = <<"N", "/", "A">>
    /\ Series("spectrum_fc_port_speed_bps", <<"2", "1", "1">>,
              <<8, <<>>, "*10^9">>) \in testRegistry.series
    /\ Series("spectrum_fc_port_speed_bps", <<"1", "1", "1">>,
              Zero) \in testRegistry.series

\* ---------------------------------------------------------------- C17
\* the speed the claim gives an IP port speed string
IPSpeedOf(cs) ==
    IF IntegerWith(cs, <<"G", "b", "/", "s">>)
      THEN Times(IntegerOf(SubSeq(cs, 1, Len(cs) - 4)), "*10^9")
    ELSE IF IntegerWith(cs, <<"M", "b", "/", "s">>)
      THEN Times(IntegerOf(SubSeq(cs, 1, Len(cs) - 4)), "*10^6")
    ELSE Zero

\* C17: in the IP port probe a speed "<integer>Gb/s" gives integer*10^9,
\* "<integer>Mb/s" gives integer*10^6 and any other string gives 0; no
\* string has both suffixes; link_active is 1 exactly when link_state is
\* "active".
C17_IPPortSpeedAndLink ==
    TestPassed("IPPorts") =>
        \A i \in 1 .. Len(TestSt) :
            LET s == TestSt[i]
                speed == Series("spectrum_ip_port_speed_bps", PortKey(s),
                                IPSpeedOf(s.speed))
                link == Series("spectrum_ip_port_link_active",
                               PortKey(s) \o <<s.MAC>>,
                               IF s.link_state = "active"
                                 THEN <<1, <<>>, "1">> ELSE Zero)
            IN  /\ ~(HasSuffix(s.speed, <<"G", "b", "/", "s">>)
                       /\ HasSuffix(s.speed, <<"M", "b", "/", "s">>))
                /\ speed \in RegistryAfter(i).series
                /\ link \in RegistryAfter(i).series
                /\ LastOfPort(TestSt, i) => speed \in testRegistry.series
                /\ LastOfKey("IPPorts", TestSt, i) =>
                       link \in testRegistry.series

\* C17 happens: the IP test ran on a port of node 2 at 1Gb/s with an
\* active link and a port of node 1 at 100Mb/s with an inactive link
C17_Witness ==
    /\ TestPassed("IPPorts")
    /\ Len(TestSt) = 2
    /\ TestSt[2].link_state = "inactive"
    /\ Series("spectrum_ip_port_speed_bps", <<"2", "0", "1">>,
              <<1, <<>>, "*10^9">>) \in testRegistry.series
    /\ Series("spectrum_ip_port_speed_bps", <<"1", "0", "1">>,
              <<100, <<>>, "*10^6">>) \in testRegistry.series
    /\ Series("spectrum_ip_port_link_active", <<"1", "0", "1", "08:94">>,
              Zero) \in testRegistry.series
    /\ \E x \in testRegistry.series :
          x.name = "spectrum_ip_port_link_active" /\ x.value = <<1, <<>>, "1">>

\* ---------------------------------------------------------------- C18
\* the byte-size fields of a pool and their metrics
SizeFields == {"free_capacity", "capacity", "used_capacity"}
SizeMetric(f) ==
    CASE f = "free_capacity" -> "spectrum_pool_free_bytes"
      [] f = "capacity" -> "spectrum_pool_capacity_bytes"
      [] f = "used_capacity" -> "spectrum_pool_used_bytes"
PoolKey(s) == <<s.id, s.name>>

\* the pool data is an array whose vdisk_count members are integers
PoolDecodes ==
    /\ testData.json = "array"
    /\ \A i \in 1 .. Len(testData.val) :
          ~JSONInt(testData.val[i].vdisk_count).err

\* what record s leaves in reg, a registry right after its loop iteration
\* that was prev before it: every size that parses, nothing new for a
\* size that does not, the status indicators and the volume count
PoolEmitted(s, prev, reg) ==
    /\ \A f \in SizeFields :
          LET size == ParseBase2Bytes(s[f])
          IN  IF size.err
                THEN (<<SizeMetric(f), PoolKey(s)>> \in SeriesKeys(reg))
                       <=> (<<SizeMetric(f), PoolKey(s)>> \in SeriesKeys(prev))
              ELSE Series(SizeMetric(f), PoolKey(s), size.v) \in reg.series
    /\ Series("spectrum_pool_volume_count", PoolKey(s),
              <<s.vdisk_count, <<>>, "1">>) \in reg.series
    /\ Cardinality(Indicators("Pool", s, reg)) = 2

\* C18: in the pool probe each of free, capacity and used is parsed on its
\* own: a value that does not parse leaves only that one metric point of
\* that pool out, the status indicators, the volume count and the sizes
\* that parse are emitted, the later pools are processed and the probe
\* returns true.
C18_PoolSizesIndependent ==
    (Tested("Pool") /\ PoolDecodes) =>
        /\ testResult = "true"
        /\ \A i \in 1 .. Len(TestSt) :
              /\ PoolEmitted(TestSt[i], RegistryAfter(i - 1), RegistryAfter(i))
              /\ OnlyOfKey("Pool", TestSt, i) =>
                     PoolEmitted(TestSt[i], RegisterAll(NewRegistry,
                                                        ProbeFamilies("Pool")),
                                 testRegistry)

\* C18 happens: the pool test ran on pool 0, whose free capacity does not
\* parse, and then on pool 1; pool 0 has its capacity and no free bytes,
\* pool 1 has its free bytes
C18_Witness ==
    /\ Tested("Pool")
    /\ testResult = "true"
    /\ Len(TestSt) = 2
    /\ TestSt[1].free_capacity = <<>>
    /\ TestSt[2].id = "1"
    /\ \E x \in testRegistry.series :
          x.name = "spectrum_pool_capacity_bytes" /\ x.labels = <<"0", "Pool0">>
    /\ ~\E x \in testRegistry.series :
          x.name = "spectrum_pool_free_bytes" /\ x.labels = <<"0", "Pool0">>
    /\ \E x \in testRegistry.series :
          x.name = "spectrum_pool_free_bytes" /\ x.labels = <<"1", "Pool1">>

\* ---------------------------------------------------------------- C19
\* the probes whose records hold a string-encoded number, and the field
NumberProbes == {"EnclosureStats", "NodeStats", "Pool"}
NumberField(p) == IF p = "Pool" THEN "vdisk_count" ELSE "stat_current"
\* the number of raw record s of probe p parses
NumberParses(p, s) == ~JSONInt(s[NumberField(p)]).err

\* C19: a string-encoded number that does not parse (stat_current in the
\* enclosure and node stats, vdisk_count in the pools) costs only its own
\* metric point: the probe does not fail, and the other metrics of the
\* record and the other records are emitted; so the probe returns true on
\* every array of records, the status indicators of every pool are in the
\* sink, and so are the series of the stats whose number parses.
C19_BadNumberKeepsProbe ==
    \A p \in NumberProbes :
        (Tested(p) /\ testData.json = "array") =>
            /\ testResult = "true"
            /\ \A i \in 1 .. Len(testData.val) :
                  LET s == testData.val[i]
                  IN  /\ p = "Pool" =>
                            Cardinality(Indicators(p, s, testRegistry)) = 2
                      /\ (p = "EnclosureStats" /\ NumberParses(p, s)
                            /\ s.stat_name \in EnclosureStatNames) =>
                            <<EnclosureMetric(s.stat_name), <<s.enclosure_id>> >>
                              \in SeriesKeys(testRegistry)
                      /\ (p = "NodeStats" /\ NumberParses(p, s)
                            /\ s.stat_name \in NodeStatNames) =>
                            <<NodeMetric(s.stat_name), <<s.node_id>> >>
                              \in SeriesKeys(testRegistry)

\* ---------------------------------------------------------------- C20
\* the deadline of request r has expired or its caller has gone; the clock
\* and the caller only move while a login or a fetch is outstanding
Expired(r) == cancelled[r] \/ elapsed[r] >= TimeoutTicks
\* the last upstream request of r was given up
Aborted(r) ==
    /\ Len(recv[r]) >= 1
    /\ Len(sent[r]) = Len(recv[r])
    /\ recv[r][Len(recv[r])] = TransportError

\* C20 as stated: when the one deadline expires while a login or a fetch
\* is outstanding, that request is aborted, no further upstream request is
\* issued, and the invocation is reported as a probe failure, a sink with
\* probe_success = 0 that holds the series registered before the expiry.
C20_Original ==
    \A r \in Reqs :
        (Done(r) /\ Expired(r)) =>
            /\ Aborted(r)
            /\ ServedSink(r)
            /\ Served(r, "probe_success", Float(0))
            /\ \A j \in 1 .. (Len(results[r]) - 1) :
                  SeriesOfProbe(r, j) \subseteq response[r].series

\* C20 amended: one deadline, also cancelled with the inbound request,
\* bounds the login and all the fetches; when it expires while a request
\* is outstanding that request is aborted and no further upstream request
\* is issued; if it was the login the answer is a 400 with the error text
\* and no metrics, and if it was a fetch the answer is the sink with
\* probe_success = 0 and the series of the probes that had returned.
C20_DeadlineAborts ==
    \A r \in Reqs :
        /\ (pc[r] \in {"login", "fetch"} /\ Expired(r)) =>
               Len(sent[r]) = Len(recv[r]) + 1
        /\ (Done(r) /\ Expired(r)) =>
               /\ Aborted(r)
               /\ IF Len(recv[r]) = 1 THEN Rejected(r)
                  ELSE /\ ServedSink(r)
                       /\ Served(r, "probe_success", Float(0))
                       /\ ~results[r][Len(results[r])]
                       /\ \A j \in 1 .. (Len(results[r]) - 1) :
                             /\ results[r][j]
                             /\ SeriesOfProbe(r, j) \subseteq response[r].series

\* C20 happens: the deadline expired during the fetch of the pools, after
\* two probes had returned
C20_Witness ==
    \E r \in Reqs :
        /\ Done(r)
        /\ elapsed[r] = TimeoutTicks
        /\ ~cancelled[r]
        /\ results[r] = <<TRUE, TRUE, FALSE>>
        /\ Len(sent[r]) = 4
        /\ Served(r, "probe_success", Float(0))
        /\ \E s \in response[r].series : s.name = "spectrum_power_watts"

\* ---------------------------------------------------------------- C22
\* C22: the chain stops at the first probe that returns false: a false
\* result is the last result, the handler has answered, and the last
\* upstream request is the fetch of that probe, so that no later probe was
\* started and no fetch of a later resource was issued.
C22_StopsAtFirstFailure ==
    \A r \in Reqs :
        \A j \in 1 .. Len(results[r]) :
            ~results[r][j] =>
                /\ j = Len(results[r])
                /\ step[r] = j
                /\ Done(r)
                /\ Len(sent[r]) = RecvPos(j)
                /\ Len(recv[r]) = RecvPos(j)

\* C22 happens: the PSU probe, the second, got a 500 and returned false
\* after the enclosure probe returned true; two fetches were issued
C22_Witness ==
    \E r \in Reqs :
        /\ Done(r)
        /\ results[r] = <<TRUE, FALSE>>
        /\ recv[r][3].status = 500
        /\ Len(sent[r]) = 3

\* ---------------------------------------------------------------- C23
\* the upstream requests of a fully successful invocation, by path, and
\* the probe that issues each fetch
FixedPaths ==
    << "/rest/auth", "/rest/lsenclosurestats", "/rest/lsenclosurepsu",
       "/rest/lsmdiskgrp", "/rest/lsdrive", "/rest/lsnodecanisterstats",
       "/rest/lsportfc", "/rest/lsportip" >>
FixedProbes ==
    << "EnclosureStats", "EnclosurePSUs", "Pool", "Drives", "NodeStats",
       "FCPorts", "IPPorts" >>

\* the i-th upstream request of r was answered and succeeded
Succeeded(r, i) ==
    /\ i <= Len(recv[r])
    /\ recv[r][i].err = ""
    /\ recv[r][i].status = 200
    /\ IF i = 1 THEN ~UnmarshalLogin(recv[r][i].body).err
       ELSE ~FetchFails(FixedProbes[i - 1], recv[r][i])

\* C23: the probes run one after the other in one fixed order: the
\* upstream requests of an invocation are a prefix of /rest/auth,
\* lsenclosurestats, lsenclosurepsu, lsmdiskgrp, lsdrive,
\* lsnodecanisterstats, lsportfc, lsportip; at most one is outstanding, a
\* request is issued only after the one before it succeeded, and a fully
\* successful invocation has issued all eight (the host probe none).
C23_FixedRequestOrder ==
    \A r \in Reqs :
        /\ Len(sent[r]) <= Len(FixedPaths)
        /\ \A i \in 1 .. Len(sent[r]) :
              /\ sent[r][i].url = TargetKey(target[r]) \o FixedPaths[i]
              /\ i > 1 => Succeeded(r, i - 1)
        /\ Len(recv[r]) <= Len(sent[r])
        /\ Len(sent[r]) <= Len(recv[r]) + 1
        /\ (ServedSink(r) /\ Served(r, "probe_success", <<1, <<>>, "1">>)) =>
              /\ Len(sent[r]) = Len(FixedPaths)
              /\ \A i \in 1 .. Len(FixedPaths) : Succeeded(r, i)

\* C23 happens: an invocation succeeded in full and its eighth request was
\* the fetch of the IP ports
C23_Witness ==
    \E r \in Reqs :
        /\ Served(r, "probe_success", <<1, <<>>, "1">>)
        /\ Len(sent[r]) = 8
        /\ sent[r][1].url = "https://a:7443/rest/auth"
        /\ sent[r][5].url = "https://a:7443/rest/lsdrive"
        /\ sent[r][8].url = "https://a:7443/rest/lsportip"

\* ---------------------------------------------------------------- C26
\* the names registered by an invocation that runs its probes up to the
\* k-th, in the order of registration
RECURSIVE NamesUpTo(_)
NamesUpTo(k) ==
    IF k = 0 THEN <<"probe_success", "probe_duration_seconds">>
    ELSE NamesUpTo(k - 1) \o ProbeFamilies(ProbeSeq[k])
Range(s) == { s[i] : i \in DOMAIN s }

\* C26: no metric name is ever registered twice in one sink: the names of
\* the two handler gauges and of all the probes are pairwise distinct and
\* the registry of a request holds the names of that request alone, those
\* of the handler and of the probes it has started, each once; a probe
\* registers its families before its fetch, so they are registered while
\* the fetch is outstanding and after it failed.
C26_NoDuplicateRegistration ==
    /\ \A i, j \in DOMAIN NamesUpTo(NumProbes) :
          NamesUpTo(NumProbes)[i] = NamesUpTo(NumProbes)[j] => i = j
    /\ \A r \in Reqs :
          /\ ~registry[r].dup
          /\ registry[r].created =>
                registry[r].names = Range(NamesUpTo(step[r]))
          /\ pc[r] = "fetch" =>
                /\ registry[r].created
                /\ Len(results[r]) = step[r] - 1
          /\ \A j \in 1 .. Len(results[r]) :
                /\ j <= step[r]
                /\ FamilySet(ProbeSeq[j]) \subseteq registry[r].names

\* C26 happens: the fetch of the node stats failed and the ten families of
\* the node probe are registered, none of them with a series
C26_Witness ==
    \E r \in Reqs :
        /\ Done(r)
        /\ results[r] = <<TRUE, TRUE, TRUE, TRUE, FALSE>>
        /\ ~registry[r].dup
        /\ "spectrum_node_sas_iops" \in registry[r].names
        /\ "spectrum_fc_port_status" \notin registry[r].names
        /\ ~\E s \in response[r].series : s.name = "spectrum_node_sas_iops"

\* ---------------------------------------------------------------- C25
\* no endpoint was requested twice by r, and at most eight requests
NoRetry(r) ==
    /\ Len(sent[r]) <= 8
    /\ \A i, j \in 1 .. Len(sent[r]) :
          sent[r][i].url = sent[r][j].url => i = j
Waiting(r) == pc[r] \in {"login", "fetch"}

\* C25: no step is retried: in one invocation the login path and each of
\* the seven resource paths is requested at most once, so there are at
\* most eight upstream requests, and, every request returning a response,
\* an error or the abort of the deadline, the invocation terminates.
C25_NoRetryTerminates ==
    /\ [](\A r \in Reqs : NoRetry(r))
    /\ \A r \in Reqs : Waiting(r) ~> Done(r)

\* C25 happens: an invocation ended at its eighth request, the fetch of
\* the IP ports, which failed, and no path was requested twice
C25_Witness ==
    \E r \in Reqs :
        /\ Done(r)
        /\ Len(sent[r]) = 8
        /\ Len(results[r]) = NumProbes
        /\ ~results[r][NumProbes]
        /\ \A i, j \in 1 .. 8 : sent[r][i].url = sent[r][j].url => i = j

\* ---------------------------------------------------------------- C27
\* a sink has one series for a name and a label key
OneSeriesPerKey(series) ==
    \A x, y \in series : (x.name = y.name /\ x.labels = y.labels) => x = y
\* the label keys of the series of metric name in the test's registry
KeysOf(name) == { x.labels : x \in { y \in testRegistry.series : y.name = name } }
\* the value of the one series of metric name and label key k
ValueOf(name, k) ==
    (CHOOSE x \in testRegistry.series : x.name = name /\ x.labels = k).value

\* C27: when several records of one fetch have the same label key of a
\* metric the sink holds one series for the key, with the value of the last
\* such record of the array.  The speed of FC and IP ports is keyed by
\* node, adapter location and adapter port alone: records that differ in
\* WWPN or MAC only have status, state and link series of their own and
\* share one speed series, which holds the speed of the later record.
C27_LastWriterWins ==
    /\ testResult # "none" => OneSeriesPerKey(testRegistry.series)
    /\ TestPassed("FCPorts") =>
         /\ KeysOf("spectrum_fc_port_speed_bps") =
              { PortKey(TestSt[i]) : i \in 1 .. Len(TestSt) }
         /\ \A i \in 1 .. Len(TestSt) :
               /\ LastOfPort(TestSt, i) =>
                     ValueOf("spectrum_fc_port_speed_bps", PortKey(TestSt[i]))
                       = FCSpeedOf(TestSt[i].port_speed)
               /\ Cardinality(Indicators("FCPorts", TestSt[i], testRegistry)) = 3
    /\ TestPassed("IPPorts") =>
         /\ KeysOf("spectrum_ip_port_speed_bps") =
              { PortKey(TestSt[i]) : i \in 1 .. Len(TestSt) }
         /\ KeysOf("spectrum_ip_port_link_active") =
              { PortKey(TestSt[i]) \o <<TestSt[i].MAC>> : i \in 1 .. Len(TestSt) }
         /\ \A i \in 1 .. Len(TestSt) :
               /\ LastOfPort(TestSt, i) =>
                     ValueOf("spectrum_ip_port_speed_bps", PortKey(TestSt[i]))
                       = IPSpeedOf(TestSt[i].speed)
               /\ Cardinality(Indicators("IPPorts", TestSt[i], testRegistry)) = 3
    /\ TestPassed("NodeStats") =>
         \A i \in 1 .. Len(TestSt) :
             (TestSt[i].stat_name \in NodeStatNames /\ LastOfStat(TestSt, i)) =>
                 ValueOf(NodeMetric(TestSt[i].stat_name), <<TestSt[i].node_id>>)
                   = NodeSeries(TestSt[i]).value
    /\ TestPassed("EnclosurePSUs") =>
         \A i \in 1 .. Len(TestSt) :
             LastOfKey("EnclosurePSUs", TestSt, i) =>
                 \A v \in StatusValues("EnclosurePSUs") :
                     ValueOf("spectrum_psu_status",
                             StatusKey("EnclosurePSUs", TestSt[i]) \o <<v>>)
                       = IF TestSt[i].status = v THEN <<1, <<>>, "1">> ELSE Zero

\* C27 happens: two FC port records of the same port with WWPN 5006 at 8Gb
\* and then WWPN 5005 at 16Gb left six status series and one speed series,
\* at 16Gb
C27_Witness ==
    /\ TestPassed("FCPorts")
    /\ Len(TestSt) = 2
    /\ PortKey(TestSt[1]) = PortKey(TestSt[2])
    /\ TestSt[1].WWPN = "5006" /\ TestSt[1].port_speed = <<"8", "G", "b">>
    /\ TestSt[2].WWPN = "5005" /\ TestSt[2].port_speed = <<"1", "6", "G", "b">>
    /\ Cardinality(testRegistry.series) = 7
    /\ Series("spectrum_fc_port_speed_bps", PortKey(TestSt[1]),
              <<16, <<>>, "*10^9">>) \in testRegistry.series

\* ---------------------------------------------------------------- C21
\* the served metrics of r, the duration aside
MetricSet(r) ==
    { s \in response[r].series : s.name # "probe_duration_seconds" }

OwnAnswer(r, i) ==
    IF i = 1 THEN FixedLogin(target[r].host)
    ELSE FixedFetch(target[r].host, FixedProbes[i - 1])

\* request r lives on its own: its requests go to the array of its target,
\* its responses are that array's, its fetches carry the token of its own
\* login, its sink holds the handler gauges and series made from its own
\* responses, and its outcome is the one its target has
OnItsOwn(r) ==
    /\ \A i \in 1 .. Len(sent[r]) :
          /\ sent[r][i].url = TargetKey(target[r]) \o FixedPaths[i]
          /\ i > 1 => sent[r][i].headers =
                        {<<"X-Auth-Token", TokenIn(recv[r][1])>>}
    /\ \A i \in 1 .. Len(recv[r]) :
          recv[r][i] \in {OwnAnswer(r, i), TransportError}
    /\ \A s \in response[r].series :
          \/ s.name \in HandlerGauges
          \/ \E j \in 1 .. Len(results[r]) :
                results[r][j] /\ s \in SeriesOfProbe(r, j)
    /\ (Done(r) /\ ~cancelled[r]) =>
          /\ Served(r, "probe_success", <<1, <<>>, "1">>)
               <=> target[r].host = "a:7443"
          /\ Served(r, "probe_success", Zero) <=> target[r].host = "c"
          /\ Rejected(r) <=> target[r].host \notin {"a:7443", "c"}

\* C24: in every interleaving of concurrent /probe requests, for the same
\* or for different targets, the requests share no mutable state: every
\* request lives on its own, a step of the server changes the locals of one
\* request at most, and the credential map is as main loaded it.
C24_NoSharedState ==
    /\ [](\A r \in Reqs : OnItsOwn(r))
    /\ [](authMap = AuthMapThree)
    /\ [][/\ authMap' = authMap
          /\ \A r1, r2 \in Reqs :
                r1 # r2 => (Local(r1)' = Local(r1) \/ Local(r2)' = Local(r2))
         ]_vars

\* C24 happens: a request for array a and a request for array c were in
\* flight together, each with its own token, and both were answered, a
\* with probe_success 1 and c with probe_success 0
C24_Witness ==
    \E r1, r2 \in Reqs :
        /\ r1 # r2
        /\ Done(r1) /\ Done(r2)
        /\ target[r1].host = "a:7443" /\ target[r2].host = "c"
        /\ Len(sent[r1]) = 8 /\ Len(sent[r2]) = 5
        /\ <<"X-Auth-Token", "T1">> \in sent[r1][8].headers
        /\ <<"X-Auth-Token", "T2">> \in sent[r2][5].headers
        /\ Served(r1, "probe_success", <<1, <<>>, "1">>)
        /\ Served(r2, "probe_success", Zero)
        /\ \E s \in response[r2].series : s.labels = <<"3">>

====
